---- MODULE Spec2Model ----
(***************************************************************************)
(* Verification model of the pono/cosa core engines.                       *)
(*                                                                         *)
(*   Part I  : KInduction (src/kinduction.cpp) over an incremental solver  *)
(*             modelled as an assertion stack whose check_sat enumerates   *)
(*             the state sequences of a finite transition system.          *)
(*   Part II : CegarValues / ValueAbstractor (cegar_values.cpp, held in    *)
(*             src/unnamed/part_001) over a small term language.           *)
(***************************************************************************)
EXTENDS Integers, Sequences, FiniteSets, TLC

(***************************************************************************)
(* Bounds of the exploration.                                              *)
(***************************************************************************)
\* largest bound k handed to check_until
MaxK == 4
\* number of check_until calls explored after one initialize()
MaxCalls == 2
\* number of initialize() calls explored after construction
MaxInits == 1
\* number of solver queries that may be answered UNKNOWN in one behaviour
MaxUnknown == 1
\* largest bound k handed to CegarValues::check_until
MaxCegarK == 2
\* number of states of the concrete run followed next to the CEGAR driver
MaxTrace == 4
\* largest number of state variables, and of input variables, of a system
\* handed to IC3SA::check_ts
MaxTSVars == 2
\* largest bound k handed to IC3Base::check_until
MaxIC3K == 3
\* number of IC3Base::check_until calls explored
MaxIC3Calls == 2
\* deepest inductive step whose simple-path constraint is compared with
\* pairwise distinctness on every state sequence
MaxSeqDepth == 2

(***************************************************************************)
(* Transition systems, named by a pair <<family, code>>.  A state is a    *)
(* tuple of naturals, one component per state variable (booleans are 0/1,  *)
(* bit-vectors their unsigned value).                                      *)
(* Inputs are existentially quantified in the transition relation: the     *)
(* unrolled input copy v@i occurs in trans@i only.                         *)
(***************************************************************************)
\* S1: two-bit counter, prop := c != 3 \/ true = true
S1 == <<"S1", 0>>
\* S2: two-bit counter, prop := c != 3
S2 == <<"S2", 0>>
\* S3: free latch x' = i, prop := ~x
S3 == <<"S3", 0>>
\* S4: latches a, b toggling, init a /\ ~b, prop := a != b
S4 == <<"S4", 0>>
\* S5: x' = x + 1, y' = y + 2 over BV(8), prop := y != 2 * x
S5 == <<"S5", 0>>
\* S6: x' = ite(x = 7, 0, x + 1) over BV(3), prop := x != 4
S6 == <<"S6", 0>>
\* one variable over 0..2, init x = 0, edges 0->0, 1->1, 1->2, prop := x != 2
Lasso == <<"Lasso", 0>>
\* one variable over 0..2, init x = 0, edges 0->0, 1->2, prop := x != 2:
\* the predecessor of the bad state has no predecessor itself
Orphan == <<"Orphan", 0>>
\* two-bit counter kept in two latches a (low bit) and b, init ~a /\ ~b,
\* prop := ~(a /\ b)
Cnt2 == <<"Cnt2", 0>>
\* a system without state variables whose property is the constant true
NoVars == <<"NoVars", 0>>
\* the family of one-latch systems: every transition relation over x in
\* {0, 1} (edge a -> b present iff bit 2a+b of the code is set), with
\* init x = 0 or init true (lowest bit of n), prop := ~x
Gen(n) == <<"Gen", n>>

Bit(n, b) == (n \div (2 ^ b)) % 2

GenSystems == {Gen(n) : n \in 0..31}
GenInitBits(sys) == 1 + 2 * (sys[2] % 2)
GenTransBits(sys) == sys[2] \div 2

NamedSystems == {S1, S2, S3, S4, S5, S6, Lasso, Cnt2, NoVars}
Systems == NamedSystems \cup GenSystems

BV8 == 256

\* ts_.states(): the state variables, as positions of the state tuple
NumVars(sys) ==
  CASE sys \in {S4, S5, Cnt2} -> 2
    [] sys = NoVars -> 0
    [] OTHER -> 1

StatesOf(sys) ==
  CASE sys \in {S1, S2} -> {<<c>> : c \in 0..3}
    [] sys = S3 -> {<<x>> : x \in 0..1}
    [] sys \in {S4, Cnt2} -> {<<a, b>> : a \in 0..1, b \in 0..1}
    [] sys = S5 -> {<<x, y>> : x \in 0..(BV8 - 1), y \in 0..(BV8 - 1)}
    [] sys = S6 -> {<<x>> : x \in 0..7}
    [] sys \in {Lasso, Orphan} -> {<<x>> : x \in 0..2}
    [] sys = NoVars -> {<<>>}
    [] OTHER -> {<<x>> : x \in 0..1}

\* ts_.init()
InitP(sys, s) ==
  CASE sys \in {S1, S2} -> s[1] = 0
    [] sys = S3 -> s[1] = 0
    [] sys = S4 -> s[1] = 1 /\ s[2] = 0
    [] sys = Cnt2 -> s[1] = 0 /\ s[2] = 0
    [] sys = S5 -> s[1] = 0 /\ s[2] = 0
    [] sys = S6 -> s[1] = 0
    [] sys \in {Lasso, Orphan} -> s[1] = 0
    [] sys = NoVars -> TRUE
    [] OTHER -> Bit(GenInitBits(sys), s[1]) = 1

\* ts_.trans(), inputs projected away
TransP(sys, s, t) ==
  CASE sys \in {S1, S2} -> t[1] = (s[1] + 1) % 4
    [] sys = S3 -> TRUE
    [] sys = S4 -> t[1] = 1 - s[1] /\ t[2] = 1 - s[2]
    [] sys = Cnt2 -> t[1] + 2 * t[2] = (s[1] + 2 * s[2] + 1) % 4
    [] sys = S5 -> t[1] = (s[1] + 1) % BV8 /\ t[2] = (s[2] + 2) % BV8
    [] sys = S6 -> t[1] = (IF s[1] = 7 THEN 0 ELSE s[1] + 1)
    [] sys = Lasso -> <<s[1], t[1]>> \in {<<0, 0>>, <<1, 1>>, <<1, 2>>}
    [] sys = Orphan -> <<s[1], t[1]>> \in {<<0, 0>>, <<1, 2>>}
    [] sys = NoVars -> TRUE
    [] OTHER -> Bit(GenTransBits(sys), 2 * s[1] + t[1]) = 1

\* property_.prop()
PropP(sys, s) ==
  CASE sys = S1 -> (s[1] # 3) \/ (TRUE = TRUE)
    [] sys = S2 -> s[1] # 3
    [] sys = S3 -> s[1] = 0
    [] sys = S4 -> s[1] # s[2]
    [] sys = Cnt2 -> ~(s[1] = 1 /\ s[2] = 1)
    [] sys = S5 -> s[2] # (2 * s[1]) % BV8
    [] sys = S6 -> s[1] # 4
    [] sys \in {Lasso, Orphan} -> s[1] # 2
    [] sys = NoVars -> TRUE
    [] OTHER -> s[1] = 0

\* the models of init, and the successors of a state: the solver's search
\* for a state that satisfies an asserted init@0 or trans@t
InitStates(sys) ==
  CASE sys = S5 -> {<<0, 0>>}
    [] OTHER -> {s \in StatesOf(sys) : InitP(sys, s)}

Succ(sys, s) ==
  CASE sys = S5 -> {<<(s[1] + 1) % BV8, (s[2] + 2) % BV8>>}
    [] OTHER -> {t \in StatesOf(sys) : TransP(sys, s, t)}

(***************************************************************************)
(* The solver.  An assertion is an unrolled formula: init@0, trans@i,      *)
(* prop@i, bad@i = (not prop)@i, or one conjunct sp(i, j) of simple_path_, *)
(* the disjunction over the state variables v of not (v@i = v@j).          *)
(***************************************************************************)
Asrt(kind, i, j) == [kind |-> kind, i |-> i, j |-> j]
InitAt0 == Asrt("init", 0, 0)
TransAt(i) == Asrt("trans", i, 0)
PropAt(i) == Asrt("prop", i, 0)
BadAt(i) == Asrt("bad", i, 0)

\* the last time frame an assertion mentions
LastTime(a) == IF a.kind = "trans" THEN a.i + 1 ELSE a.i

Max(S) == CHOOSE m \in S : \A n \in S : n <= m

Horizon(A) == Max({0} \cup {LastTime(a) : a \in A})

\* faulty variant: a conjunction over the state variables
Differ_All(sys, s, t) == \A v \in 1..NumVars(sys) : s[v] # t[v]

\* add_simple_path_constraint's disjunction: some state variable differs
Differ(sys, s, t) == \E v \in 1..NumVars(sys) : s[v] # t[v]

\* does the sequence p (p[t+1] is the state at time t) satisfy assertion a
Holds(sys, a, p) ==
  CASE a.kind = "init" -> InitP(sys, p[1])
    [] a.kind = "trans" -> TransP(sys, p[a.i + 1], p[a.i + 2])
    [] a.kind = "prop" -> PropP(sys, p[a.i + 1])
    [] a.kind = "bad" -> ~PropP(sys, p[a.i + 1])
    [] OTHER -> Differ(sys, p[a.i + 1], p[a.j + 1])

\* the sequences over times 0..t that satisfy every assertion of A
\* mentioning no later time
RECURSIVE Models(_, _, _)
Models(sys, A, t) ==
  LET now == {a \in A : LastTime(a) = t}
  IN IF t = 0
       THEN {<<s>> : s \in
               {s \in (IF InitAt0 \in A THEN InitStates(sys)
                       ELSE StatesOf(sys)) :
                  \A a \in now : Holds(sys, a, <<s>>)}}
       ELSE UNION {
              {Append(p, s) : s \in
                 {s \in (IF TransAt(t - 1) \in A THEN Succ(sys, p[t])
                         ELSE StatesOf(sys)) :
                    \A a \in now : Holds(sys, a, Append(p, s))}}
              : p \in Models(sys, A, t - 1)}

\* solver_->check_sat() on the assertions A: the set of models
SolverModels(sys, A) == Models(sys, A, Horizon(A))

(***************************************************************************)
(* Terms.  A term is a triple: <<"var", name, 0>> a current-state          *)
(* variable, <<"next", name, 0>> its primed copy, <<"input", name, 0>> an  *)
(* input variable, <<"val", sort, n>> a value literal, <<"op", o, cs>> an  *)
(* application of operator o to the sequence of terms cs.  Bit-vectors     *)
(* have BVWidth bits; an array value is the constant array of element n.   *)
(***************************************************************************)
BVWidth == 2
BVMod == 2 ^ BVWidth

Var(name) == <<"var", name, 0>>
NextVar(name) == <<"next", name, 0>>
InputVar(name) == <<"input", name, 0>>
Val(sort, n) == <<"val", sort, n>>
Op(o, cs) == <<"op", o, cs>>

BoolTrue == Val("bool", 1)
BoolFalse == Val("bool", 0)
BV(n) == Val("bv", n)

Not(a) == Op("Not", <<a>>)
And(a, b) == Op("And", <<a, b>>)
Or(a, b) == Op("Or", <<a, b>>)
Equal(a, b) == Op("Equal", <<a, b>>)
Distinct(a, b) == Op("Distinct", <<a, b>>)
BVAdd(a, b) == Op("BVAdd", <<a, b>>)
BVMul(a, b) == Op("BVMul", <<a, b>>)
BVUdiv(a, b) == Op("BVUdiv", <<a, b>>)
Select(a, b) == Op("Select", <<a, b>>)

\* term->is_value()
IsValue(t) == t[1] = "val"

\* the children of a term, in order
Children(t) == IF t[1] = "op" THEN t[3] ELSE <<>>

\* the terms occurring in t
RECURSIVE Subterms(_)
Subterms(t) ==
  {t} \cup UNION {Subterms(Children(t)[n]) : n \in 1..Len(Children(t))}

\* the values of a sort
Dom(sort) == IF sort = "bool" THEN 0..1 ELSE 0..(BVMod - 1)

\* the value of term t under the assignments cur (state variables), nxt
\* (primed state variables) and inp (inputs); booleans are 0 and 1
RECURSIVE Eval(_, _, _, _)
Eval(t, cur, nxt, inp) ==
  CASE t[1] = "var" -> cur[t[2]]
    [] t[1] = "next" -> nxt[t[2]]
    [] t[1] = "input" -> inp[t[2]]
    [] t[1] = "val" -> t[3]
    [] OTHER ->
         LET e(n) == Eval(t[3][n], cur, nxt, inp)
         IN CASE t[2] = "Not" -> 1 - e(1)
              [] t[2] = "And" -> IF e(1) = 1 /\ e(2) = 1 THEN 1 ELSE 0
              [] t[2] = "Or" -> IF e(1) = 1 \/ e(2) = 1 THEN 1 ELSE 0
              [] t[2] = "Equal" -> IF e(1) = e(2) THEN 1 ELSE 0
              [] t[2] = "Distinct" -> IF e(1) = e(2) THEN 0 ELSE 1
              [] t[2] = "BVAdd" -> (e(1) + e(2)) % BVMod
              [] t[2] = "BVMul" -> (e(1) * e(2)) % BVMod
              [] t[2] = "BVUdiv" ->
                   IF e(2) = 0 THEN BVMod - 1 ELSE e(1) \div e(2)
              [] t[2] = "Select" -> e(1)

(***************************************************************************)
(* Term-level transition systems handed to the CEGAR driver.               *)
(***************************************************************************)
\* two-bit counter of S2: init c = 0, trans c' = c + 1, prop c != 3
TCounter == "TCounter"
\* free latch of S3: init x = false, trans x' = i, prop ~x
TLatch == "TLatch"
\* a multiplication by a constant: init x = 0, trans x' = x + 1,
\* prop 2 * x != 2
TMul == "TMul"
\* a constant array: init x = select(const(1), 0), trans x' = x,
\* prop x != 0
TArr == "TArr"
\* TCounter presented as a functional transition system
TFun == "TFun"

TermSystems == {TCounter, TLatch, TMul, TArr, TFun}

\* faulty variant: every system is taken for relational
IsFunctional_Never(c) == FALSE

\* ts.is_functional()
IsFunctional(c) == c = TFun

\* ts.statevars() with their sorts, and ts.inputvars()
StateVarSorts(c) ==
  CASE c = TLatch -> [v \in {"x"} |-> "bool"]
    [] c \in {TMul, TArr} -> [v \in {"x"} |-> "bv"]
    [] OTHER -> [v \in {"c"} |-> "bv"]

InputVarSorts(c) ==
  CASE c = TLatch -> [v \in {"i"} |-> "bool"]
    [] OTHER -> [v \in {} |-> "bool"]

\* conc_ts_.init(), conc_ts_.trans(), orig_property_.prop()
InitTerm(c) ==
  CASE c = TLatch -> Equal(Var("x"), BoolFalse)
    [] c = TMul -> Equal(Var("x"), BV(0))
    [] c = TArr -> Equal(Var("x"), Select(Val("array", 1), BV(0)))
    [] OTHER -> Equal(Var("c"), BV(0))

TransTerm(c) ==
  CASE c = TLatch -> Equal(NextVar("x"), InputVar("i"))
    [] c = TMul -> Equal(NextVar("x"), BVAdd(Var("x"), BV(1)))
    [] c = TArr -> Equal(NextVar("x"), Var("x"))
    [] OTHER -> Equal(NextVar("c"), BVAdd(Var("c"), BV(1)))

PropTerm(c) ==
  CASE c = TLatch -> Not(Var("x"))
    [] c = TMul -> Not(Equal(BVMul(BV(2), Var("x")), BV(2)))
    [] c = TArr -> Not(Equal(Var("x"), BV(0)))
    [] OTHER -> Not(Equal(Var("c"), BV(3)))

\* all assignments to the variables of a sort map
Assignments(sorts) ==
  {f \in [DOMAIN sorts -> 0..(BVMod - 1)] :
     \A v \in DOMAIN sorts : f[v] \in Dom(sorts[v])}

(***************************************************************************)
(* ValueAbstractor.                                                        *)
(***************************************************************************)
\* faulty variant: the bit-vector division is missing
nl_ops_NoUdiv ==
  {"Mult", "Div", "Mod", "Abs", "Pow", "IntDiv", "BVMul", "BVSdiv",
   "BVUrem", "BVSrem", "BVSmod"}

\* static unordered_set<PrimOp> nl_ops
nl_ops ==
  {"Mult", "Div", "Mod", "Abs", "Pow", "IntDiv", "BVMul", "BVUdiv", "BVSdiv",
   "BVUrem", "BVSrem", "BVSmod"}

\* term->to_string() of a value
Bits(n, w) == [b \in 1..w |-> Bit(n, w - b)]

ValueString(t) ==
  CASE t[2] = "bool" -> IF t[3] = 1 THEN "true" ELSE "false"
    [] t[2] = "array" -> "const" \o ToString(t[3])
    [] OTHER -> "bv" \o ToString(t[3]) \o "_" \o ToString(BVWidth)

\* faulty variant: the name is built from the sort only, so that two values of a
\* sort share one frozen variable
AbsName_SortOnly(t) == "__abs_" \o t[2]

\* the name of the frozen variable made for a value
AbsName(t) == "__abs_" \o ValueString(t)

\* query_cache(t, c) with c preset to t
Cached(cache, t) == IF t \in DOMAIN cache THEN cache[t] ELSE t

\* visit_term in post-order.  st.cache is the walker's cache, st.vals is
\* abstracted_values_ (frozen variable name to value term), st.made the
\* names handed to ts_.make_statevar in the order of the calls, st.sorts the
\* state variables made by ts_.make_statevar.
VisitTerm(t, st) ==
  IF IsValue(t) /\ t[2] # "array"
    THEN [cache |-> (t :> Var(AbsName(t))) @@ st.cache,
          vals |-> (AbsName(t) :> t) @@ st.vals,
          sorts |-> (AbsName(t) :> t[2]) @@ st.sorts,
          made |-> Append(st.made, AbsName(t))]
    ELSE IF t[1] = "op" /\ t[2] \notin nl_ops
           THEN [st EXCEPT !.cache =
                   (t :> Op(t[2], [n \in 1..Len(t[3]) |->
                                     Cached(st.cache, t[3][n])])) @@ @]
           ELSE [st EXCEPT !.cache = (t :> t) @@ @]

\* faulty variant: the cache is not consulted
InCache_Never(cache, t) == FALSE

\* in_cache(t)
InCache(cache, t) == t \in DOMAIN cache

\* IdentityWalker::visit: children first, cached terms are not visited again
RECURSIVE Walk(_, _)
RECURSIVE WalkAll(_, _)
Walk(t, st) ==
  IF InCache(st.cache, t)
    THEN st
    ELSE VisitTerm(t, WalkAll(Children(t), st))

WalkAll(ts, st) ==
  IF ts = <<>> THEN st ELSE WalkAll(Tail(ts), Walk(Head(ts), st))

(***************************************************************************)
(* Part I.  KInduction.                                                    *)
(***************************************************************************)
VARIABLES
  sys,           \* ts_ / property_: the system the prover was built for
  reached_k_,    \* KInduction::reached_k_
  simple_path_,  \* KInduction::simple_path_, the sequence of its conjuncts
  stack,         \* solver_: assertion sets, one per context level
  pc,            \* position in check_until: "idle", "base" or "ind"
  i,             \* loop variable of check_until
  k,             \* argument of the running (or last) check_until
  result,        \* value returned by the last check_until, or "none"
  witness,       \* model of the last satisfiable base-step query
  qlog,          \* solver queries since initialize(), in order
  hist,          \* completed check_until calls since initialize()
  entry_depth,   \* solver context depth when check_until was entered
  unknowns,      \* number of queries answered UNKNOWN so far
  budget,        \* number of UNKNOWN answers the solver may still give
  inits,         \* number of initialize() calls after construction
  fresh          \* verdicts of check_until(k) on a just-initialised prover

kvars == <<sys, reached_k_, simple_path_, stack, pc, i, k, result, witness,
           qlog, hist, entry_depth, unknowns, budget, inits, fresh>>

\* CegarValues (Part II)
VARIABLES
  csys,            \* conc_ts_ / orig_property_: the concrete system
  initialized_,    \* Prover::initialized_
  prover_ts_,      \* the transition system handed to the inner prover
  bad_,            \* Prover::bad_
  to_vals_,        \* frozen variable name -> the value it abstracts
  cegval_ts_,      \* copy of prover_ts_ over cegval_solver_
  cegval_bad_,     \* copy of bad_ over cegval_solver_
  cegval_labels_,  \* frozen variable name -> assumption label
  cegval_depth,    \* context depth of cegval_solver_
  cpc,             \* position in CegarValues::check_until
  ck,              \* argument of the running (or last) check_until
  cres,            \* outcome of the last public call, "none" before
  inner_res,       \* last verdict of super::check_until
  cex_length,      \* super::witness_length() after an UNSAFE verdict
  refine_r,        \* last answer of check_sat_assuming in cegar_refine
  ctrace,          \* a run of the concrete system (environment)
  cinits           \* calls of CegarValues::initialize: 0, 1, or 2 for more

cvars == <<csys, initialized_, prover_ts_, bad_, to_vals_, cegval_ts_,
           cegval_bad_, cegval_labels_, cegval_depth, cpc, ck, cres,
           inner_res, cex_length, refine_r, ctrace, cinits>>

\* IC3SA (Part III)
VARIABLES
  ts_statevars,  \* ts_->statevars(): the sort kind of each state variable
  ts_inputvars,  \* ts_->inputvars(): the sort kind of each input variable
  check_ts_res   \* outcome of the last IC3SA::check_ts, "none" before

savars == <<ts_statevars, ts_inputvars, check_ts_res>>

\* IC3Base (Part IV)
VARIABLES
  isys,            \* ts_ / property of the IC3 prover
  frames_,         \* IC3Base::frames_; frames_[n + 1] is frame n
  proof_goals_,    \* IC3Base::proof_goals_
  ic3_reached_k_,  \* Prover::reached_k_ of the IC3 prover
  ipc,             \* position in IC3Base::check_until
  ik,              \* argument of the running (or last) check_until
  ires,            \* value returned by the last check_until, or "none"
  cur_goal,        \* the goal get_next_proof_goal returned to block_all
  prop_i,          \* the frame propagate is called for next
  fhf,             \* history: argument and result of find_highest_frame
  icalls           \* number of check_until calls so far

ivars == <<isys, frames_, proof_goals_, ic3_reached_k_, ipc, ik, ires,
           cur_goal, prop_i, fhf, icalls>>

\* cegar_abstract on its own (Part V)
VARIABLES
  va_in,       \* conc_ts_.init(), conc_ts_.trans() and the property
  va_pc,       \* position in cegar_abstract
  va_seen,     \* the terms visited so far, in the order of the visits
  va_st,       \* the ValueAbstractor va: cache, abstracted values, variables
  va_ts,       \* prover_ts_: init, trans and the frozen variables
  va_bad,      \* bad_
  va_to_vals   \* to_vals_

vavars == <<va_in, va_pc, va_seen, va_st, va_ts, va_bad, va_to_vals>>

\* the cube construction of IC3SA (Part VI)
VARIABLES
  sa_fn,         \* the method that runs: "intersects_bad",
                 \* "get_model_ic3formula" or "generalize_predecessor"
  sa_pc,         \* position: "idle", "partition", "done", "crashed" or
                 \* "assert_failed"
  sa_frames,     \* sa_frames[n + 1]: the states of frame n
  sa_bad,        \* bad_
  sa_reached_k,  \* reached_k_
  sa_goals,      \* proof_goals_
  sa_predset,    \* predset_
  sa_seed,       \* the free symbols of c.term (generalize_predecessor)
  sa_model,      \* the model of the solver, "none" if there is none
  sa_keep,       \* the symbols the model is projected on
  sa_ec,         \* construct_partition: the classes still to be handled
  sa_cube,       \* cube_lits / out_cube
  sa_classes,    \* history: the classes handled, with the order their terms
                 \* were iterated in, the term read last and the
                 \* representative computed
  sa_representatives,  \* the vector representatives of the running sort
  sa_ret         \* the value returned, "none" before

pavars == <<sa_fn, sa_pc, sa_frames, sa_bad, sa_reached_k, sa_goals,
            sa_predset, sa_seed, sa_model, sa_keep, sa_ec, sa_cube,
            sa_classes, sa_representatives, sa_ret>>

pvars == <<vavars, pavars>>

evars == <<savars, ivars, pvars>>

vars == <<kvars, cvars, evars>>

Verdicts == {"TRUE", "FALSE", "UNKNOWN"}

\* all assertions of the current solver context
Flatten(st) == UNION {st[l] : l \in 1..Len(st)}

\* number of pushes not yet popped
Depth(st) == Len(st) - 1

\* solver_->assert_formula(f) for every f of F, at the current level
AssertAll(st, F) == [st EXCEPT ![Len(st)] = @ \cup F]

\* solver_->push() / solver_->pop()
Push(st) == Append(st, {})
Pop(st) == SubSeq(st, 1, Len(st) - 1)

\* Result of check_sat: the correct answer, or UNKNOWN.  UNKNOWN answers are
\* explored on the small systems only (S5 has 2^16 states).
Answers(M) ==
  {IF M = {} THEN "unsat" ELSE "sat"}
    \cup (IF budget > 0 /\ sys # S5 THEN {"unknown"} ELSE {})

Query(kind, depth, ans, A) ==
  [call |-> Len(hist) + 1, kind |-> kind, depth |-> depth, ans |-> ans,
   asserted |-> A]

\* KInduction::initialize (also run by the constructor)
InitProver ==
  /\ reached_k_ = -1
  /\ stack = <<{}>>
  /\ simple_path_ = <<>>

\* the KInduction prover right after construction, for system ts and a
\* solver that may answer UNKNOWN b times
KConstructed(ts, b) ==
  /\ sys = ts
  /\ budget = b
  /\ InitProver
  /\ pc = "idle"
  /\ i = 0
  /\ k = 0
  /\ result = "none"
  /\ witness = <<>>
  /\ qlog = <<>>
  /\ hist = <<>>
  /\ entry_depth = 0
  /\ unknowns = 0
  /\ inits = 0
  /\ fresh = [n \in 0..MaxK |-> "none"]

\* a CegarValues driver right after construction, for system c
NullTerm == <<"null", "", 0>>

EmptyTS == [init |-> BoolTrue, trans |-> BoolTrue, sorts |-> <<>>,
            inputs |-> <<>>, frozen |-> {}]

CConstructed(c) ==
  /\ csys = c
  /\ initialized_ = FALSE
  /\ prover_ts_ = EmptyTS
  /\ bad_ = NullTerm
  /\ to_vals_ = <<>>
  /\ cegval_ts_ = EmptyTS
  /\ cegval_bad_ = NullTerm
  /\ cegval_labels_ = <<>>
  /\ cegval_depth = 0
  /\ cpc = "idle"
  /\ ck = 0
  /\ cres = "none"
  /\ inner_res = "none"
  /\ cex_length = 0
  /\ refine_r = "none"
  /\ ctrace = <<>>
  /\ cinits = 0

\* an IC3SA prover right after construction, for a system with state
\* variables of sort kinds svs and input variables of sort kinds ivs
SAConstructed(svs, ivs) ==
  /\ ts_statevars = svs
  /\ ts_inputvars = ivs
  /\ check_ts_res = "none"

\* no proof goal
NoGoal == [target |-> {}, idx |-> 0, next |-> <<>>]

\* an IC3 prover right after construction, for system ts
IConstructed(ts) ==
  /\ isys = ts
  /\ frames_ = <<>>
  /\ proof_goals_ = <<>>
  /\ ic3_reached_k_ = -1
  /\ ipc = "idle"
  /\ ik = 0
  /\ ires = "none"
  /\ cur_goal = NoGoal
  /\ prop_i = 0
  /\ fhf = {}
  /\ icalls = 0

\* cegar_abstract entered for a relational system with the terms of inp:
\* prover_ts_ = conc_ts_, nothing visited
VAEntered(inp) ==
  /\ va_in = inp
  /\ va_pc = "behavior"
  /\ va_seen = <<>>
  /\ va_st = [cache |-> <<>>, vals |-> <<>>, sorts |-> <<>>, made |-> <<>>]
  /\ va_ts = [init |-> inp.init, trans |-> inp.trans, frozen |-> {}]
  /\ va_bad = NullTerm
  /\ va_to_vals = <<>>

\* an IC3SA prover about to run method fn, with the frames fr, bad term
\* bad, reached_k_ = rk, proof goals pg, predicates ps, target symbols
\* seed and solver model m
SAEntered(fn, fr, bad, rk, pg, ps, seed, m) ==
  /\ sa_fn = fn
  /\ sa_pc = "idle"
  /\ sa_frames = fr
  /\ sa_bad = bad
  /\ sa_reached_k = rk
  /\ sa_goals = pg
  /\ sa_predset = ps
  /\ sa_seed = seed
  /\ sa_model = m
  /\ sa_keep = {}
  /\ sa_ec = <<>>
  /\ sa_cube = <<>>
  /\ sa_classes = <<>>
  /\ sa_representatives = <<>>
  /\ sa_ret = "none"

PConstructed ==
  /\ VAEntered([init |-> BoolTrue, trans |-> BoolTrue, prop |-> BoolTrue])
  /\ SAEntered("get_model_ic3formula", <<{}, {}>>, BoolTrue, 0, <<>>, {}, {},
               "none")

\* the engines of Parts III and IV as constructed: IC3SA for a system of
\* one BOOL variable, IC3 for S1
EConstructed ==
  SAConstructed(<<"BOOL">>, <<>>) /\ IConstructed(S1) /\ PConstructed

KInit ==
  /\ \E ts \in Systems : KConstructed(ts, 0)
  /\ CConstructed(TCounter)
  /\ EConstructed

\* faulty variant: the assertions are left in the solver
ResetAssertions_Noop(st) == st

\* solver_->reset_assertions(): no assertion and no pushed context is left
ResetAssertions(st) == <<{}>>

Initialize ==
  /\ pc = "idle"
  /\ inits < MaxInits
  /\ inits' = inits + 1
  /\ reached_k_' = -1
  /\ stack' = ResetAssertions(stack)
  /\ simple_path_' = <<>>
  /\ result' = "none"
  /\ witness' = <<>>
  /\ qlog' = <<>>
  /\ hist' = <<>>
  /\ UNCHANGED <<sys, pc, i, k, entry_depth, unknowns, budget, fresh>>
  /\ UNCHANGED <<cvars, evars>>

\* entry of check_until(kk): for (int i = 0; i <= k; ...)
CheckUntil(kk) ==
  /\ pc = "idle"
  /\ Len(hist) < MaxCalls
  /\ k' = kk
  /\ i' = 0
  /\ pc' = "base"
  /\ result' = "none"
  /\ witness' = <<>>
  /\ entry_depth' = Depth(stack)
  /\ UNCHANGED <<sys, reached_k_, simple_path_, stack, qlog, hist, unknowns,
                 budget, inits, fresh>>
  /\ UNCHANGED <<cvars, evars>>

\* check_until returns res
Return(res, unk) ==
  /\ pc' = "idle"
  /\ result' = res
  /\ hist' = Append(hist, [k |-> k, res |-> res])
  /\ fresh' = IF hist = <<>> /\ unk = 0
                THEN [fresh EXCEPT ![k] = res]
                ELSE fresh

\* faulty variant: no depth counts as done
Skipped_Never(d, rk) == FALSE

\* faulty variant: depth reached_k_ + 1 counts as done (i <= reached_k_ + 1)
Skipped_OneTooMany(d, rk) == d <= rk + 1

\* if (i <= reached_k_) of base_step and inductive_step
Skipped(d, rk) == d <= rk

\* faulty variant: init@0 is not asserted
BaseAsserts_NoInit(d) == {BadAt(d)}

\* the formulas base_step(d) asserts between push and check_sat
BaseAsserts(d) == {InitAt0, BadAt(d)}

\* faulty variant: trans@d is not asserted
BaseKeeps_NoTrans(d) == {PropAt(d)}

\* the formulas base_step(d) asserts after the pop
BaseKeeps(d) == {TransAt(d), PropAt(d)}

\* base_step(i) and the test of its result in check_until
BaseStep ==
  /\ pc = "base"
  /\ IF Skipped(i, reached_k_)
       THEN /\ pc' = "ind"
            /\ UNCHANGED <<stack, witness, qlog, unknowns, budget, result,
                           hist, fresh>>
       ELSE LET pushed == AssertAll(Push(stack), BaseAsserts(i))
                A == Flatten(pushed)
                M == SolverModels(sys, A)
            IN \E r \in Answers(M) :
                 /\ qlog' = Append(qlog, Query("base", i, r, A))
                 /\ unknowns' = unknowns + (IF r = "unknown" THEN 1 ELSE 0)
                 /\ budget' = budget - (IF r = "unknown" THEN 1 ELSE 0)
                 /\ IF r = "sat"
                      THEN /\ \E w \in M : witness' = w
                           /\ stack' = pushed
                           /\ Return("FALSE", unknowns')
                      ELSE /\ stack' = AssertAll(Pop(pushed),
                                                 BaseKeeps(i))
                           /\ pc' = "ind"
                           /\ UNCHANGED <<witness, result, hist, fresh>>
  /\ UNCHANGED <<sys, reached_k_, simple_path_, i, k, entry_depth, inits>>
  /\ UNCHANGED <<cvars, evars>>

\* faulty variant: the loop runs for j <= i, comparing the state at i
\* with itself
NewPairs_Reflexive(n) == [j \in 1..(n + 1) |-> <<n, j - 1>>]

\* the conjuncts add_simple_path_constraint(i, j) appends for j = 0..i-1
NewPairs(n) == [j \in 1..n |-> <<n, j - 1>>]

SimplePathAsserts(sp) == {Asrt("sp", sp[n][1], sp[n][2]) : n \in 1..Len(sp)}

\* the formulas inductive_step(d) asserts between push and check_sat
IndAsserts(sp, d) == SimplePathAsserts(sp) \cup {BadAt(d + 1)}

\* faulty variant: reached_k_ is not advanced
ReachedAfterInd_Never(rk, r) == rk

\* faulty variant: ++reached_k_ is executed before the test of the result
ReachedAfterInd_Always(rk, r) == rk + 1

\* reached_k_ after inductive_step's query answered r: ++reached_k_ is only
\* reached when the function has not returned true
ReachedAfterInd(rk, r) == IF r = "unsat" THEN rk ELSE rk + 1

\* faulty variant: the loop stops one depth early (i < k)
LoopContinues_Strict(n, kk) == n < kk

\* the loop condition i <= k of check_until
LoopContinues(n, kk) == n <= kk

\* faulty variant: a depth is left out
NextDepth_SkipsOne(n) == n + 2

\* ++i
NextDepth(n) == n + 1

\* ++i; i <= k; and the return after the loop
NextIteration(unk) ==
  IF LoopContinues(NextDepth(i), k)
    THEN /\ i' = NextDepth(i)
         /\ pc' = "base"
         /\ UNCHANGED <<result, hist, fresh>>
    ELSE /\ i' = NextDepth(i)
         /\ Return("UNKNOWN", unk)

\* inductive_step(i) and the test of its result in check_until
InductiveStep ==
  /\ pc = "ind"
  /\ IF Skipped(i, reached_k_)
       THEN /\ NextIteration(unknowns)
            /\ UNCHANGED <<reached_k_, simple_path_, stack, qlog, unknowns,
                           budget>>
       ELSE LET sp == simple_path_ \o NewPairs(i)
                pushed == AssertAll(Push(stack), IndAsserts(sp, i))
                A == Flatten(pushed)
                M == SolverModels(sys, A)
            IN \E r \in Answers(M) :
                 /\ simple_path_' = sp
                 /\ qlog' = Append(qlog, Query("ind", i, r, A))
                 /\ unknowns' = unknowns + (IF r = "unknown" THEN 1 ELSE 0)
                 /\ budget' = budget - (IF r = "unknown" THEN 1 ELSE 0)
                 /\ reached_k_' = ReachedAfterInd(reached_k_, r)
                 /\ IF r = "unsat"
                      THEN /\ stack' = pushed
                           /\ Return("TRUE", unknowns')
                           /\ UNCHANGED i
                      ELSE /\ stack' = Pop(pushed)
                           /\ NextIteration(unknowns')
  /\ UNCHANGED <<sys, k, witness, entry_depth, inits>>
  /\ UNCHANGED <<cvars, evars>>

KNext ==
  \/ Initialize
  \/ \E kk \in 0..MaxK : CheckUntil(kk)
  \/ BaseStep
  \/ InductiveStep

\* KInduction over a solver that answers every query sat or unsat
Spec == KInit /\ [][KNext]_vars

KInitUnknown ==
  /\ \E ts \in Systems : KConstructed(ts, MaxUnknown)
  /\ CConstructed(TCounter)
  /\ EConstructed

\* KInduction over a solver that may answer UNKNOWN
SpecUnknown == KInitUnknown /\ [][KNext]_vars

(***************************************************************************)
(* Part II.  CegarValues.                                                  *)
(***************************************************************************)
\* semantics of a transition system [init, trans, sorts, inputs, frozen]
\* given by terms; a state assigns a value to every state variable
StatesOfTS(pts) == Assignments(pts.sorts)

HoldsTerm(t, s) == Eval(t, s, s, <<>>) = 1

\* assign_next(v, v) of a relational system conjoins next(v) = v to trans
FrozenTerm(a) == Equal(NextVar(a), Var(a))

HoldsTrans(pts, s, t) ==
  /\ \E inp \in Assignments(pts.inputs) : Eval(pts.trans, s, t, inp) = 1
  /\ \A a \in pts.frozen : Eval(FrozenTerm(a), s, t, <<>>) = 1

\* the successors of s: only states that agree with s on the frozen
\* variables can satisfy trans
Successors(pts, s) ==
  LET free == DOMAIN pts.sorts \ pts.frozen
      cand == {[v \in DOMAIN pts.sorts |-> IF v \in free THEN f[v] ELSE s[v]] :
                 f \in Assignments([v \in free |-> pts.sorts[v]])}
  IN {t \in cand : HoldsTrans(pts, s, t)}

ImageTS(pts, X) == UNION {Successors(pts, s) : s \in X}

\* the states reached from X by exactly n transitions
RECURSIVE Layer(_, _, _)
Layer(pts, X, n) == IF n = 0 THEN X ELSE Layer(pts, ImageTS(pts, X), n - 1)

RECURSIVE ReachTS(_, _)
ReachTS(pts, X) ==
  LET Y == X \cup ImageTS(pts, X)
  IN IF Y = X THEN X ELSE ReachTS(pts, Y)

\* conc_ts_
ConcTS(c) ==
  [init |-> InitTerm(c), trans |-> TransTerm(c), sorts |-> StateVarSorts(c),
   inputs |-> InputVarSorts(c), frozen |-> {}]

EmptyWalk == [cache |-> <<>>, vals |-> <<>>, sorts |-> <<>>, made |-> <<>>]

\* cegar_abstract on a relational system: the walker visits init, trans and
\* the property with one cache; every abstracted value's variable is frozen
Abstracted(c) ==
  LET st == Walk(PropTerm(c), Walk(TransTerm(c), Walk(InitTerm(c), EmptyWalk)))
  IN [ts |-> [init |-> Cached(st.cache, InitTerm(c)),
              trans |-> Cached(st.cache, TransTerm(c)),
              sorts |-> st.sorts @@ StateVarSorts(c),
              inputs |-> InputVarSorts(c),
              frozen |-> DOMAIN st.vals],
      bad |-> Not(Cached(st.cache, PropTerm(c))),
      vals |-> st.vals]

\* "__assump_" + value->to_string()
LabelName(t) == "__assump_" \o ValueString(t)

\* does initialize() raise: cegar_abstract on a functional system
InitializeThrows == ~initialized_ /\ IsFunctional(csys)

\* super::initialize() (Prover::initialize) records that it has run
SuperInitialized == TRUE

\* CegarValues::initialize, including cegar_abstract
InitializeEffect ==
  IF initialized_
    THEN UNCHANGED <<initialized_, prover_ts_, bad_, to_vals_, cegval_ts_,
                     cegval_bad_, cegval_labels_>>
    ELSE IF IsFunctional(csys)
           THEN /\ prover_ts_' = ConcTS(csys)
                /\ UNCHANGED <<initialized_, bad_, to_vals_, cegval_ts_,
                               cegval_bad_, cegval_labels_>>
           ELSE LET abs == Abstracted(csys)
                IN /\ prover_ts_' = abs.ts
                   /\ bad_' = abs.bad
                   /\ cegval_bad_' = abs.bad
                   /\ to_vals_' = abs.vals
                   /\ initialized_' = SuperInitialized
                   /\ cegval_ts_' = abs.ts
                   /\ cegval_labels_' =
                        [a \in DOMAIN abs.vals |-> LabelName(abs.vals[a])]

\* one more call of CegarValues::initialize
Counted(n) == IF n < 2 THEN n + 1 ELSE n

\* the public initialize()
CegarInitialize ==
  /\ cpc = "idle"
  /\ InitializeEffect
  /\ cinits' = Counted(cinits)
  /\ cres' = IF InitializeThrows THEN "exception" ELSE cres
  /\ UNCHANGED <<csys, cegval_depth, cpc, ck, inner_res, cex_length,
                 refine_r, ctrace>>
  /\ UNCHANGED <<kvars, evars>>

\* entry of check_until(kk): initialize(), then the refinement loop
CegarCheckUntil(kk) ==
  /\ cpc = "idle"
  /\ InitializeEffect
  /\ cinits' = Counted(cinits)
  /\ ck' = kk
  /\ inner_res' = "none"
  /\ cex_length' = 0
  /\ refine_r' = "none"
  /\ IF InitializeThrows
       THEN cres' = "exception" /\ cpc' = "idle"
       ELSE cres' = "none" /\ cpc' = "inner"
  /\ UNCHANGED <<csys, cegval_depth, ctrace>>
  /\ UNCHANGED <<kvars, evars>>

\* the verdicts super::check_until(kk) may return for the system pts with
\* bad states b, each with the witness length it reports: UNSAFE only with
\* the length of a trace from init to a bad state, SAFE only if no bad
\* state is reachable
InnerVerdicts(pts, b, kk) ==
  LET start == {s \in StatesOfTS(pts) : HoldsTerm(pts.init, s)}
  IN {<<"UNKNOWN", 0>>}
       \cup {<<"FALSE", n>> : n \in
               {n \in 0..kk : \E s \in Layer(pts, start, n) : HoldsTerm(b, s)}}
       \cup (IF \A s \in ReachTS(pts, start) : ~HoldsTerm(b, s)
              THEN {<<"TRUE", 0>>} ELSE {})

\* res = super::check_until(k) and the tests of res
InnerCheckUntil ==
  /\ cpc = "inner"
  /\ \E v \in InnerVerdicts(prover_ts_, bad_, ck) :
       /\ inner_res' = v[1]
       /\ cex_length' = v[2]
       /\ IF v[1] = "FALSE"
            THEN cpc' = "refine" /\ UNCHANGED cres
            ELSE cpc' = "idle" /\ cres' = v[1]
  /\ UNCHANGED <<csys, initialized_, prover_ts_, bad_, to_vals_, cegval_ts_,
                 cegval_bad_, cegval_labels_, cegval_depth, ck, refine_r,
                 ctrace, cinits>>
  /\ UNCHANGED <<kvars, evars>>

\* check_sat_assuming(assumps) in cegar_refine: the BMC formula of
\* cegval_ts_ for n transitions together with lbl -> (v@0 = value) for
\* every frozen variable v, under all labels lbl
RefineAnswer(n) ==
  LET start == {s \in StatesOfTS(cegval_ts_) :
                  /\ HoldsTerm(cegval_ts_.init, s)
                  /\ \A a \in DOMAIN to_vals_ :
                       HoldsTerm(Equal(Var(a), to_vals_[a]), s)}
  IN IF \E s \in Layer(cegval_ts_, start, n) : HoldsTerm(cegval_bad_, s)
       THEN "sat" ELSE "unsat"

\* what cegar_refine does after the pop: it throws unconditionally, the
\* return statement behind the throw is never reached
RefineOutcome(r) == "exception"

\* cegar_refine and the test of its result in check_until
CegarRefine ==
  /\ cpc = "refine"
  /\ LET r == RefineAnswer(cex_length)
         out == RefineOutcome(r)
     IN /\ refine_r' = r
        /\ cegval_depth' = (cegval_depth + 1) - 1
        /\ IF out = "exception"
             THEN cres' = "exception" /\ cpc' = "idle"
             ELSE IF out = "refined"
                    THEN cpc' = "inner" /\ UNCHANGED cres
                    ELSE cres' = "FALSE" /\ cpc' = "idle"
  /\ UNCHANGED <<csys, initialized_, prover_ts_, bad_, to_vals_, cegval_ts_,
                 cegval_bad_, cegval_labels_, ck, inner_res, cex_length,
                 ctrace, cinits>>
  /\ UNCHANGED <<kvars, evars>>

\* the environment: the concrete system takes its first state
TraceStart ==
  /\ ctrace = <<>>
  /\ \E s \in StatesOfTS(ConcTS(csys)) :
       /\ HoldsTerm(InitTerm(csys), s)
       /\ ctrace' = <<s>>
  /\ UNCHANGED <<csys, initialized_, prover_ts_, bad_, to_vals_, cegval_ts_,
                 cegval_bad_, cegval_labels_, cegval_depth, cpc, ck, cres,
                 inner_res, cex_length, refine_r, cinits>>
  /\ UNCHANGED <<kvars, evars>>

\* the environment: the concrete system takes a transition
TraceStep ==
  /\ ctrace # <<>>
  /\ Len(ctrace) < MaxTrace
  /\ \E t \in Successors(ConcTS(csys), ctrace[Len(ctrace)]) :
       ctrace' = Append(ctrace, t)
  /\ UNCHANGED <<csys, initialized_, prover_ts_, bad_, to_vals_, cegval_ts_,
                 cegval_bad_, cegval_labels_, cegval_depth, cpc, ck, cres,
                 inner_res, cex_length, refine_r, cinits>>
  /\ UNCHANGED <<kvars, evars>>

CInit ==
  /\ \E c \in TermSystems : CConstructed(c)
  /\ KConstructed(S1, 0)
  /\ EConstructed

CNext ==
  \/ CegarInitialize
  \/ \E kk \in 0..MaxCegarK : CegarCheckUntil(kk)
  \/ InnerCheckUntil
  \/ CegarRefine
  \/ TraceStart
  \/ TraceStep

SpecCegar == CInit /\ [][CNext]_vars

\* Either prover on its own: one of the two objects is exercised, the other
\* stays as constructed
ProversInit == KInit \/ CInit

ProversNext ==
  \/ CConstructed(TCounter) /\ KNext
  \/ KConstructed(S1, 0) /\ CNext

SpecProvers == ProversInit /\ [][ProversNext]_vars

(***************************************************************************)
(* Part III.  IC3SA.                                                       *)
(***************************************************************************)
\* smt::SortKind
SortKinds == {"BOOL", "BV", "INT", "REAL", "ARRAY", "FUNCTION"}

\* the lists of at most n sort kinds
SortKindLists(n) == UNION {[1..m -> SortKinds] : m \in 0..n}

\* faulty variant: only BV is accepted
Supported_BVOnly(sk) == sk = "BV"

\* the negation of the test sk != BOOL && sk != BV
Supported(sk) == ~(sk # "BOOL" /\ sk # "BV")

\* one of the two loops of check_ts: does it reach its throw
LoopThrows(kinds) == \E n \in 1..Len(kinds) : ~Supported(kinds[n])

\* IC3SA::check_ts: the loop over the state variables, then the loop over
\* the input variables
CheckTsOutcome(svs, ivs) ==
  IF LoopThrows(svs) THEN "exception"
  ELSE IF LoopThrows(ivs) THEN "exception"
  ELSE "ok"

CheckTs ==
  /\ check_ts_res' = CheckTsOutcome(ts_statevars, ts_inputvars)
  /\ UNCHANGED <<ts_statevars, ts_inputvars>>
  /\ UNCHANGED <<kvars, cvars, ivars, pvars>>

SAInit ==
  /\ \E svs \in SortKindLists(MaxTSVars), ivs \in SortKindLists(MaxTSVars) :
       SAConstructed(svs, ivs)
  /\ KConstructed(S1, 0)
  /\ CConstructed(TCounter)
  /\ IConstructed(S1)
  /\ PConstructed

SANext == CheckTs

SpecIC3SA == SAInit /\ [][SANext]_vars

(***************************************************************************)
(* Part IV.  IC3Base, with the bit-level units of IC3.  A literal is a     *)
(* pair <<v, val>> (state variable v has value val), a cube is a set of    *)
(* literals; the unit stored in a frame is the clause negating a cube and  *)
(* is represented by that cube.                                            *)
(***************************************************************************)
\* get_unit: the cube of the model s
CubeOf(ts, s) == {<<v, s[v]>> : v \in 1..NumVars(ts)}

\* s satisfies the unit that negates cube c
Blocks(c, s) == \E l \in c : s[l[1]] # l[2]

\* the units stored at frame n, and the index of the last frame
Units(fr, n) == fr[n + 1]
LastFrame(fr) == Len(fr) - 1

\* the semantic content of F_n: the units of every frame j >= n, together
\* with init for frame 0
FrameStates(ts, fr, n) ==
  {s \in (IF n = 0 THEN InitStates(ts) ELSE StatesOf(ts)) :
     \A j \in n..LastFrame(fr) : \A c \in Units(fr, j) : Blocks(c, s)}

\* some successor of s lies in cube c
HasSuccessorIn(ts, s, c) == \E t \in Succ(ts, s) : ~Blocks(c, t)

\* get_predecessor(i, c): the models of F_(i-1) /\ ~c /\ T /\ c'
Predecessors(ts, fr, fi, c) ==
  {q \in FrameStates(ts, fr, fi - 1) : Blocks(c, q) /\ HasSuccessorIn(ts, q, c)}

\* intersects_initial
IntersectsInitial(ts, c) == \E s \in InitStates(ts) : ~Blocks(c, s)

\* inductive_generalization(i, c): the literal of each variable in turn is
\* dropped if the rest is still inductive relative to F_(i-1) and does
\* not intersect init
RECURSIVE Generalize(_, _, _, _, _)
Generalize(ts, fr, fi, c, v) ==
  IF v > NumVars(ts)
    THEN c
    ELSE LET d == {l \in c : l[1] # v}
         IN IF /\ d # c
               /\ Predecessors(ts, fr, fi, d) = {}
               /\ ~IntersectsInitial(ts, d)
              THEN Generalize(ts, fr, fi, d, v + 1)
              ELSE Generalize(ts, fr, fi, c, v + 1)

InductiveGeneralization(ts, fr, fi, c) == Generalize(ts, fr, fi, c, 1)

\* F_h /\ T /\ ~u' is unsat, for the unit u negating cube c
Pushable(ts, fr, h, c) ==
  \A s \in FrameStates(ts, fr, h) : ~HasSuccessorIn(ts, s, c)

\* faulty variant: the unit goes to the last frame without a test
FindHighestFrame_Last(ts, fr, fi, c) == LastFrame(fr)

\* find_highest_frame(i, u): the highest frame h >= i with
\* F_h /\ T /\ ~u' unsat, frame i if there is none
FindHighestFrame(ts, fr, fi, c) ==
  LET ok == {h \in fi..LastFrame(fr) : Pushable(ts, fr, h, c)}
  IN IF ok = {} THEN fi ELSE Max(ok)

\* constrain_frame(h, u) and push_frame()
ConstrainFrame(fr, h, c) == [fr EXCEPT ![h + 1] = @ \cup {c}]
PushFrame(fr) == Append(fr, {})

\* add_proof_goal(c, i, n); n is the chain of targets from the goal that
\* led to this one up to bad
AddProofGoal(pg, c, fi, n) == Append(pg, [target |-> c, idx |-> fi, next |-> n])

\* faulty variant: the oldest goal is taken
NextGoalIndices_Front(pg) == {1}

\* get_next_proof_goal: the positions of the goals of the lowest frame
NextGoalIndices(pg) ==
  {n \in 1..Len(pg) : \A m \in 1..Len(pg) : pg[n].idx <= pg[m].idx}

RemoveAt(pg, n) == SubSeq(pg, 1, n - 1) \o SubSeq(pg, n + 1, Len(pg))

\* entry of check_until(kk), with initialize() on the first call; a prover
\* that has given a verdict is not called again
IC3CheckUntil(kk) ==
  /\ ipc = "idle"
  /\ icalls < MaxIC3Calls
  /\ ires \in {"none", "UNKNOWN"}
  /\ icalls' = icalls + 1
  /\ ik' = kk
  /\ ires' = "none"
  /\ ipc' = "loop"
  /\ frames_' = IF frames_ = <<>> THEN <<{}>> ELSE frames_
  /\ UNCHANGED <<isys, proof_goals_, ic3_reached_k_, cur_goal, prop_i, fhf>>
  /\ UNCHANGED <<kvars, cvars, savars, pvars>>

\* the loop of check_until: step_0, then step(i) for i up to k
IC3Loop ==
  /\ ipc = "loop"
  /\ IF ic3_reached_k_ + 1 > ik
       THEN ires' = "UNKNOWN" /\ ipc' = "idle"
       ELSE /\ ipc' = IF ic3_reached_k_ = -1 THEN "step_0" ELSE "step"
            /\ UNCHANGED ires
  /\ UNCHANGED <<isys, frames_, proof_goals_, ic3_reached_k_, ik, cur_goal,
                 prop_i, fhf, icalls>>
  /\ UNCHANGED <<kvars, cvars, savars, pvars>>

\* step_0: init /\ bad sat is UNSAFE, otherwise frame 1 is pushed
Step0 ==
  /\ ipc = "step_0"
  /\ IF \E s \in InitStates(isys) : ~PropP(isys, s)
       THEN /\ ires' = "FALSE" /\ ipc' = "idle"
            /\ UNCHANGED <<frames_, ic3_reached_k_>>
       ELSE /\ frames_' = PushFrame(frames_)
            /\ ic3_reached_k_' = 0
            /\ ipc' = "loop"
            /\ UNCHANGED ires
  /\ UNCHANGED <<isys, proof_goals_, ik, cur_goal, prop_i, fhf, icalls>>
  /\ UNCHANGED <<kvars, cvars, savars, pvars>>

\* step(i): while intersects_bad, a proof goal for a bad cube of the last
\* frame is added and block_all runs; then a frame is pushed
IntersectsBad ==
  /\ ipc = "step"
  /\ LET B == {s \in FrameStates(isys, frames_, LastFrame(frames_)) :
                 ~PropP(isys, s)}
     IN IF B # {}
          THEN /\ \E s \in B :
                    proof_goals_' = AddProofGoal(proof_goals_, CubeOf(isys, s),
                                                 ic3_reached_k_ + 1, <<>>)
               /\ ipc' = "block_all"
               /\ UNCHANGED <<frames_, prop_i>>
          ELSE /\ frames_' = PushFrame(frames_)
               /\ prop_i' = 1
               /\ ipc' = "propagate"
               /\ UNCHANGED proof_goals_
  /\ UNCHANGED <<isys, ic3_reached_k_, ik, ires, cur_goal, fhf, icalls>>
  /\ UNCHANGED <<kvars, cvars, savars, pvars>>

\* block_all: while has_proof_goals, pg = get_next_proof_goal()
GetNextProofGoal ==
  /\ ipc = "block_all"
  /\ IF proof_goals_ = <<>>
       THEN ipc' = "step" /\ UNCHANGED <<proof_goals_, cur_goal>>
       ELSE \E n \in NextGoalIndices(proof_goals_) :
              /\ cur_goal' = proof_goals_[n]
              /\ proof_goals_' = RemoveAt(proof_goals_, n)
              /\ ipc' = "block"
  /\ UNCHANGED <<isys, frames_, ic3_reached_k_, ik, ires, prop_i, fhf,
                 icalls>>
  /\ UNCHANGED <<kvars, cvars, savars, pvars>>

\* block(pg) and the test of its result in block_all
Block ==
  /\ ipc = "block"
  /\ LET c == cur_goal.target
         n == cur_goal.idx
         P == Predecessors(isys, frames_, n, c)
     IN IF n = 0
          THEN /\ ires' = "FALSE" /\ ipc' = "idle"
               /\ UNCHANGED <<frames_, proof_goals_, fhf>>
          ELSE IF P = {}
                 THEN LET u == InductiveGeneralization(isys, frames_, n, c)
                          h == FindHighestFrame(isys, frames_, n, u)
                      IN /\ frames_' = ConstrainFrame(frames_, h, u)
                         /\ fhf' = fhf \cup {[from |-> n, to |-> h]}
                         /\ ipc' = "block_all"
                         /\ UNCHANGED <<proof_goals_, ires>>
                 ELSE /\ \E q \in P :
                           proof_goals_' =
                             AddProofGoal(
                               AddProofGoal(proof_goals_, c, n, cur_goal.next),
                               CubeOf(isys, q), n - 1,
                               <<c>> \o cur_goal.next)
                      /\ ipc' = "block_all"
                      /\ UNCHANGED <<frames_, fhf, ires>>
  /\ UNCHANGED <<isys, ic3_reached_k_, ik, cur_goal, prop_i, icalls>>
  /\ UNCHANGED <<kvars, cvars, savars, pvars>>

\* propagate(prop_i) inside step(i): the units of frame prop_i that hold
\* after one transition from it move to the next frame; an emptied frame is
\* the proof.  After the last frame, reached_k_ is incremented.
Propagate ==
  /\ ipc = "propagate"
  /\ IF prop_i >= LastFrame(frames_)
       THEN /\ ic3_reached_k_' = ic3_reached_k_ + 1
            /\ ipc' = "loop"
            /\ UNCHANGED <<frames_, prop_i, ires>>
       ELSE LET moved == {c \in Units(frames_, prop_i) :
                            Pushable(isys, frames_, prop_i, c)}
            IN /\ frames_' = [frames_ EXCEPT ![prop_i + 1] = @ \ moved,
                                             ![prop_i + 2] = @ \cup moved]
               /\ IF Units(frames_, prop_i) \ moved = {}
                    THEN /\ ires' = "TRUE" /\ ipc' = "idle"
                         /\ UNCHANGED <<prop_i, ic3_reached_k_>>
                    ELSE /\ prop_i' = prop_i + 1
                         /\ UNCHANGED <<ipc, ires, ic3_reached_k_>>
  /\ UNCHANGED <<isys, proof_goals_, ik, cur_goal, fhf, icalls>>
  /\ UNCHANGED <<kvars, cvars, savars, pvars>>

\* the systems handed to IC3
IC3Systems == (Systems \ {S5}) \cup {Orphan}

IInit ==
  /\ \E ts \in IC3Systems : IConstructed(ts)
  /\ SAConstructed(<<"BOOL">>, <<>>)
  /\ PConstructed
  /\ KConstructed(S1, 0)
  /\ CConstructed(TCounter)

INext ==
  \/ \E kk \in 0..MaxIC3K : IC3CheckUntil(kk)
  \/ IC3Loop
  \/ Step0
  \/ IntersectsBad
  \/ GetNextProofGoal
  \/ Block
  \/ Propagate

\* IC3Base alone
SpecIC3 == IInit /\ [][INext]_vars

(***************************************************************************)
(* Part V.  cegar_abstract of CegarValues on its own, over relational      *)
(* systems whose init, trans and property are drawn from a family of       *)
(* terms over one bit-vector state variable x.                             *)
(***************************************************************************)
VAValues == {BV(0), BV(1)}

\* bit-vector terms: values, sums, products and quotients with a value,
\* a product of values, a select on a constant array, and the two ways of
\* nesting a sum and a product
VAExprs ==
  VAValues
    \cup {BVAdd(Var("x"), v) : v \in VAValues}
    \cup {BVMul(v, Var("x")) : v \in VAValues}
    \cup {BVUdiv(Var("x"), BV(1)), BVMul(BV(0), BV(1))}
    \cup {Select(Val("array", 1), v) : v \in VAValues}
    \cup {BVAdd(BVMul(v, Var("x")), w) : v \in VAValues, w \in VAValues}
    \cup {BVMul(BVAdd(Var("x"), BV(1)), v) : v \in VAValues}
    \cup {Var("x")}

VAInits == {Equal(Var("x"), e) : e \in VAExprs}
VATranss == {Equal(NextVar("x"), e) : e \in VAExprs}
VAProps ==
  {Not(Equal(Var("x"), e)) : e \in VAExprs}
    \cup {Or(Equal(Var("x"), BV(1)), BoolFalse)}

\* va.visit(t): the walker's state after the visit; the term returned is
\* the cached image of t
Visit(t, st) == Walk(t, st)

\* the arguments va.visit(init), va.visit(trans) of set_behavior, evaluated
\* in either order; set_behavior follows the second
VAVisitBehavior(w) ==
  /\ va_pc = "behavior"
  /\ \A n \in 1..Len(va_seen) : va_seen[n] # w
  /\ va_st' = Visit(va_in[w], va_st)
  /\ va_seen' = Append(va_seen, w)
  /\ IF va_seen = <<>>
       THEN UNCHANGED <<va_pc, va_ts>>
       ELSE /\ va_pc' = "prop"
            /\ va_ts' = [va_ts EXCEPT
                           !.init = Cached(va_st'.cache, va_in.init),
                           !.trans = Cached(va_st'.cache, va_in.trans)]
  /\ UNCHANGED <<va_in, va_bad, va_to_vals>>
  /\ UNCHANGED <<kvars, cvars, savars, ivars, pavars>>

\* super::bad_ = Not(va.visit(prop_term))
VAVisitProp ==
  /\ va_pc = "prop"
  /\ va_st' = Visit(va_in.prop, va_st)
  /\ va_seen' = Append(va_seen, "prop")
  /\ va_bad' = Not(Cached(va_st'.cache, va_in.prop))
  /\ va_pc' = "freeze"
  /\ UNCHANGED <<va_in, va_ts, va_to_vals>>
  /\ UNCHANGED <<kvars, cvars, savars, ivars, pavars>>

\* faulty variant: no variable is frozen
FrozenVars_None(vals) == {}

\* prover_ts_.assign_next(elem.first, elem.first) for every elem
FrozenVars(vals) == DOMAIN vals

\* assert(prover_to_vals.size()), which a build without assertions skips,
\* and the loop over prover_to_vals
VAFreeze ==
  /\ va_pc = "freeze"
  /\ \/ /\ DOMAIN va_st.vals = {}
        /\ va_pc' = "aborted"
        /\ UNCHANGED <<va_ts, va_to_vals>>
     \/ /\ va_pc' = "done"
        /\ va_ts' = [va_ts EXCEPT !.frozen = FrozenVars(va_st.vals)]
        /\ va_to_vals' = va_st.vals
  /\ UNCHANGED <<va_in, va_seen, va_st, va_bad>>
  /\ UNCHANGED <<kvars, cvars, savars, ivars, pavars>>

VAInit ==
  /\ \E a \in VAInits, b \in VATranss, c \in VAProps :
       VAEntered([init |-> a, trans |-> b, prop |-> c])
  /\ SAEntered("get_model_ic3formula", <<{}, {}>>, BoolTrue, 0, <<>>, {}, {},
               "none")
  /\ KConstructed(S1, 0)
  /\ CConstructed(TCounter)
  /\ SAConstructed(<<"BOOL">>, <<>>)
  /\ IConstructed(S1)

VANext ==
  \/ \E w \in {"init", "trans"} : VAVisitBehavior(w)
  \/ VAVisitProp
  \/ VAFreeze

\* cegar_abstract alone
SpecAbstract == VAInit /\ [][VANext]_vars

(***************************************************************************)
(* Part VI.  The cubes of IC3SA: intersects_bad, get_model_ic3formula,     *)
(* generalize_predecessor and construct_partition, for a system with the   *)
(* bit-vector state variables x, y and the boolean state variable b.       *)
(***************************************************************************)
\* ts_->statevars() with their sorts
SAStateVars == [v \in {"x", "y", "b"} |-> IF v = "b" THEN "bool" ELSE "bv"]

\* the solver's models
SAModels == [DOMAIN SAStateVars -> 0..1]

\* the system: init is x = 0, trans is x' = x /\ y' = x + y /\ b' = b
SAInitTerm == Equal(Var("x"), BV(0))

SANextOf ==
  [v \in DOMAIN SAStateVars |->
     IF v = "y" THEN BVAdd(Var("x"), Var("y")) ELSE Var(v)]

SATransTerm ==
  And(And(Equal(NextVar("x"), SANextOf["x"]),
          Equal(NextVar("y"), SANextOf["y"])),
      Equal(NextVar("b"), SANextOf["b"]))

\* the bad terms
SABads == {Var("b"), Equal(Var("y"), BV(0))}

\* the sort of a term
SortOfTerm(t) ==
  CASE t[1] = "val" -> t[2]
    [] t[1] = "op" ->
         IF t[2] \in {"Not", "And", "Or", "Equal", "Distinct"}
           THEN "bool" ELSE "bv"
    [] OTHER -> IF t[2] \in DOMAIN SAStateVars THEN SAStateVars[t[2]]
                ELSE "bv"

\* ts_->only_curr(t)
OnlyCurr(t) == \A u \in Subterms(t) : u[1] \notin {"next", "input"}

\* the subterms of init, trans and bad
CollectedSubterms(bad) ==
  Subterms(SAInitTerm) \cup Subterms(SATransTerm) \cup Subterms(bad)

\* term_abstraction_ after initialize(): the current-state subterms of
\* init, trans and bad, by sort
TermAbstraction(bad) ==
  [srt \in {"bv", "bool"} |->
     {t \in CollectedSubterms(bad) : OnlyCurr(t) /\ SortOfTerm(t) = srt}]

\* stc.get_predicates() restricted to the current state: the boolean
\* symbols and the equality atoms, from which predset_ is drawn
SAPredicates(bad) ==
  {t \in TermAbstraction(bad)["bool"] :
     t[1] = "var" \/ (t[1] = "op" /\ t[2] = "Equal")}

\* get_free_symbolic_consts
FreeSymbols(t) == {u[2] : u \in {w \in Subterms(t) : w[1] = "var"}}

\* in_projection(t, to_keep): every symbol of t is kept
InProjection(t, keep) == FreeSymbols(t) \subseteq keep

\* the state variables the next value of a state variable is computed
\* from, and the structural cone of influence of a set of symbols
DependsOn(v) == FreeSymbols(SANextOf[v])

RECURSIVE ConeOfInfluence(_)
ConeOfInfluence(S) ==
  LET T == S \cup UNION {DependsOn(v) : v \in S}
  IN IF T = S THEN S ELSE ConeOfInfluence(T)

\* solver_->get_value(t) under the model m
ValueOf(t, m) == Eval(t, m, m, <<>>)

\* the literal of predicate q under the model: q or Not(q)
PredLit(q, m) == IF ValueOf(q, m) = 1 THEN q ELSE Not(q)

\* a set as a sequence
RECURSIVE SeqOf(_)
SeqOf(S) ==
  IF S = {} THEN <<>>
  ELSE LET e == CHOOSE e \in S : TRUE IN <<e>> \o SeqOf(S \ {e})

\* the literals of the predicates of ps that are in the projection on keep
PredLits(ps, keep, m) ==
  SeqOf({PredLit(q, m) : q \in {r \in ps : InProjection(r, keep)}})

\* get_equivalence_classes_from_model(to_keep): for each sort, the terms of
\* the abstraction that are in the projection, grouped by their value
ClassesOfSort(bad, srt, keep, m) ==
  LET kept == {t \in TermAbstraction(bad)[srt] : InProjection(t, keep)}
  IN {[sort |-> srt, val |-> Val(srt, n),
       terms |-> {t \in kept : ValueOf(t, m) = n}] :
        n \in {ValueOf(t, m) : t \in kept}}

\* the classes in the order construct_partition handles them: sort by
\* sort.  The order among the sorts and among the classes of a sort only
\* permutes the literals of the cube and is fixed here.
EquivalenceClasses(bad, keep, m) ==
  SeqOf(ClassesOfSort(bad, "bv", keep, m))
    \o SeqOf(ClassesOfSort(bad, "bool", keep, m))

\* the orders in which the terms of a class can be iterated
Orders(S) ==
  {q \in [1..Cardinality(S) -> S] :
     \A a \in DOMAIN q : \A c \in DOMAIN q : a # c => q[a] # q[c]}

\* the terms bound to `term` in the loop over a class iterated in order q:
\* the loop advances the iterator before it reads, so the first term is
\* left out and the last read is the one at end(), which yields g
TermsRead(q, g) == Append(Tail(q), g)

\* the number of dereferences of the iterator over a class iterated in
\* order q: one for `last`, then one in each round of the loop, a round
\* for each position of the iterator that is not end()
ReadsOf(q) == 1 + Len(q)

\* the equalities pushed for a class: each between `last` and `term`
ClassEqualities(q, g) ==
  LET rd == TermsRead(q, g)
  IN [n \in 1..Len(rd) |-> Equal(IF n = 1 THEN q[1] ELSE rd[n - 1], rd[n])]

\* the update of repr, found_repr, repr_val over the terms read
RECURSIVE ReprLoop(_, _, _, _)
ReprLoop(rd, repr, found_repr, repr_val) ==
  IF rd = <<>>
    THEN repr
    ELSE LET term == Head(rd)
         IN IF ~found_repr /\ term[1] = "var"
              THEN ReprLoop(Tail(rd), term, TRUE, FALSE)
              ELSE IF ~found_repr /\ ~IsValue(term) /\ repr_val
                     THEN ReprLoop(Tail(rd), term, FALSE, FALSE)
                     ELSE ReprLoop(Tail(rd), repr, found_repr, repr_val)

\* repr after the loop over a class of value val
Representative(val, q, g) == ReprLoop(TermsRead(q, g), val, FALSE, TRUE)

\* the vector representatives after the loop over a class: nothing is
\* pushed to it
RepresentativesAfter(reprs, repr) == reprs

\* the disequalities between each pair of representatives
Disequalities(reprs) ==
  LET pairs == {pr \in (1..Len(reprs)) \X (1..Len(reprs)) : pr[1] < pr[2]}
  IN SeqOf({Distinct(reprs[pr[1]], reprs[pr[2]]) : pr \in pairs})

\* get_op().prim_op, "null" for a term that is no application
OpOfTerm(t) == IF t[1] = "op" THEN t[2] ELSE "null"

\* is_eq_lit(t, boolsort)
IsEqLit(t) ==
  IF SortOfTerm(t) # "bool"
    THEN FALSE
    ELSE IF t[1] = "var"
           THEN TRUE
           ELSE LET op == IF OpOfTerm(t) = "Not"
                            THEN OpOfTerm(t[3][1]) ELSE OpOfTerm(t)
                IN ~(op # "Equal" /\ op # "Distinct" /\ op # "BVComp")

\* ic3formula_check_valid(u) for the cube with children lits
CheckValid(lits) == \A n \in 1..Len(lits) : IsEqLit(lits[n])

\* what *(++it) yields for a class of sort srt when the read goes through
BeyondEndOf(srt) ==
  {Var("junk"), Val(srt, IF srt = "bool" THEN 1 ELSE BVMod - 1)}

\* the frames the calls are made with: states of the system, nested
SAFrameSets ==
  {{m \in SAModels : m["b"] = 0 /\ m["y"] = 1},
   {m \in SAModels : m["b"] = 0},
   SAModels}

SAFrames(rk) ==
  {f \in [1..(rk + 2) -> SAFrameSets] :
     \A n \in 1..(rk + 1) : f[n] \subseteq f[n + 1]}

\* the index of the last frame
LastFrameIndex(rk) == rk + 1

\* the states of frame n (frame 0 is the first element)
SAFrameStates(fr, n) == fr[n + 1]

\* reducer_.reduce_assump_unsatcore(smart_not(bad_), cube_lits, red_c):
\* red_c keeps the literals of cube_lits but for at most MaxDropped
MaxDropped == 1

RECURSIVE ReductionsUpTo(_, _)
ReductionsUpTo(lits, n) ==
  IF n = 0
    THEN {lits}
    ELSE {lits} \cup UNION {ReductionsUpTo(RemoveAt(lits, d), n - 1) :
                              d \in 1..Len(lits)}

Reductions(lits) == ReductionsUpTo(lits, MaxDropped)

\* the goals the calls of intersects_bad start with
SAGoals == {<<>>, <<[target |-> <<Var("b")>>, idx |-> 1, next |-> <<>>]>>}

\* the cube starts with the literals of the predicates and the classes
\* of the model are computed
StartPartition(lits, keep, m) ==
  /\ sa_cube' = lits
  /\ sa_keep' = keep
  /\ sa_model' = m
  /\ sa_ec' = EquivalenceClasses(sa_bad, keep, m)
  /\ sa_pc' = IF EquivalenceClasses(sa_bad, keep, m) = <<>> THEN "built"
              ELSE "partition"

\* IC3SA::intersects_bad up to the call of construct_partition, or to its
\* return when the query is unsat
IC3SAIntersectsBad ==
  /\ sa_fn = "intersects_bad"
  /\ sa_pc = "idle"
  /\ LET B == {m \in SAFrameStates(sa_frames, LastFrameIndex(sa_reached_k)) :
                 ValueOf(sa_bad, m) = 1}
         vars_in_bad_ == FreeSymbols(sa_bad)
     IN IF B # {}
          THEN /\ \E m \in B :
                    StartPartition(PredLits(sa_predset, vars_in_bad_, m),
                                   vars_in_bad_, m)
               /\ UNCHANGED sa_ret
          ELSE /\ sa_pc' = "done"
               /\ sa_ret' = "false"
               /\ UNCHANGED <<sa_cube, sa_keep, sa_model, sa_ec>>
  /\ UNCHANGED <<sa_fn, sa_frames, sa_bad, sa_reached_k, sa_goals, sa_predset,
                 sa_seed, sa_classes, sa_representatives>>
  /\ UNCHANGED <<kvars, cvars, savars, ivars, vavars>>

\* IC3SA::get_model_ic3formula up to the call of construct_partition
GetModelIC3Formula ==
  /\ sa_fn = "get_model_ic3formula"
  /\ sa_pc = "idle"
  /\ StartPartition(SeqOf({PredLit(q, sa_model) : q \in sa_predset}),
                    DOMAIN SAStateVars, sa_model)
  /\ UNCHANGED <<sa_fn, sa_frames, sa_bad, sa_reached_k, sa_goals, sa_predset,
                 sa_seed, sa_classes, sa_representatives, sa_ret>>
  /\ UNCHANGED <<kvars, cvars, savars, ivars, vavars>>

\* IC3SA::generalize_predecessor up to the call of construct_partition;
\* the loop over the free symbols of a predicate leaves the predicate in
\* place, so every predicate of predset_ gives a literal
GeneralizePredecessor ==
  /\ sa_fn = "generalize_predecessor"
  /\ sa_pc = "idle"
  /\ StartPartition(SeqOf({PredLit(q, sa_model) : q \in sa_predset}),
                    ConeOfInfluence(sa_seed), sa_model)
  /\ UNCHANGED <<sa_fn, sa_frames, sa_bad, sa_reached_k, sa_goals, sa_predset,
                 sa_seed, sa_classes, sa_representatives, sa_ret>>
  /\ UNCHANGED <<kvars, cvars, savars, ivars, vavars>>

\* construct_partition, one class at a time.  The terms of the class are
\* iterated in some order q; the last read of the loop is beyond the end
\* of the class: the run ends there, or the read yields some term g.
\* After the last class of a sort the disequalities of that sort follow.
ConstructPartition ==
  /\ sa_pc = "partition"
  /\ LET cls == Head(sa_ec)
         endOfSort == Len(sa_ec) = 1 \/ sa_ec[2].sort # cls.sort
     IN \E q \in Orders(cls.terms) :
          \/ /\ sa_pc' = "crashed"
             /\ sa_classes' =
                  Append(sa_classes, [cls |-> cls, order |-> q,
                                      reads |-> ReadsOf(q), eqs |-> <<>>,
                                      repr |-> cls.val])
             /\ UNCHANGED <<sa_ec, sa_cube, sa_representatives>>
          \/ \E g \in BeyondEndOf(cls.sort) :
               LET repr == Representative(cls.val, q, g)
                   reprs == RepresentativesAfter(sa_representatives, repr)
               IN /\ sa_classes' =
                       Append(sa_classes,
                              [cls |-> cls, order |-> q,
                               reads |-> ReadsOf(q),
                               eqs |-> ClassEqualities(q, g), repr |-> repr])
                  /\ sa_cube' =
                       sa_cube \o ClassEqualities(q, g)
                         \o (IF endOfSort THEN Disequalities(reprs)
                             ELSE <<>>)
                  /\ sa_representatives' =
                       IF endOfSort THEN <<>> ELSE reprs
                  /\ sa_ec' = Tail(sa_ec)
                  /\ sa_pc' = IF Len(sa_ec) = 1 THEN "built" ELSE "partition"
  /\ UNCHANGED <<sa_fn, sa_frames, sa_bad, sa_reached_k, sa_goals, sa_predset,
                 sa_seed, sa_model, sa_keep, sa_ret>>
  /\ UNCHANGED <<kvars, cvars, savars, ivars, vavars>>

\* after construct_partition: get_model_ic3formula and
\* generalize_predecessor assert ic3formula_check_valid(cube) and return
\* the cube (a build without assertions returns it in any case);
\* intersects_bad reduces the cube, adds the goal and returns true
SAReturn ==
  /\ sa_pc = "built"
  /\ IF sa_fn = "intersects_bad"
       THEN /\ \E red_c \in Reductions(sa_cube) :
                 sa_goals' = AddProofGoal(sa_goals, red_c,
                                          sa_reached_k + 1, <<>>)
            /\ sa_pc' = "done"
            /\ sa_ret' = "true"
       ELSE /\ \/ /\ CheckValid(sa_cube)
                  /\ sa_pc' = "done"
               \/ /\ ~CheckValid(sa_cube)
                  /\ sa_pc' \in {"assert_failed", "done"}
            /\ sa_ret' = IF sa_pc' = "done" THEN "cube" ELSE "none"
            /\ UNCHANGED sa_goals
  /\ UNCHANGED <<sa_fn, sa_frames, sa_bad, sa_reached_k, sa_predset, sa_seed,
                 sa_model, sa_keep, sa_ec, sa_cube, sa_classes,
                 sa_representatives>>
  /\ UNCHANGED <<kvars, cvars, savars, ivars, vavars>>

\* the calls: a function, its arguments and the members it reads
SACubeInit ==
  /\ \E bad \in SABads : \E ps \in SUBSET SAPredicates(bad) :
       \/ \E rk \in 0..1, pg \in SAGoals : \E fr \in SAFrames(rk) :
            SAEntered("intersects_bad", fr, bad, rk, pg, ps, {}, "none")
       \/ \E m \in SAModels :
            SAEntered("get_model_ic3formula", <<{}, {}>>, bad, 0, <<>>, ps,
                      {}, m)
       \/ \E m \in SAModels, v \in DOMAIN SAStateVars :
            SAEntered("generalize_predecessor", <<{}, {}>>, bad, 0, <<>>, ps,
                      {v}, m)
  /\ VAEntered([init |-> BoolTrue, trans |-> BoolTrue, prop |-> BoolTrue])
  /\ KConstructed(S1, 0)
  /\ CConstructed(TCounter)
  /\ SAConstructed(<<"BOOL">>, <<>>)
  /\ IConstructed(S1)

SACubeNext ==
  \/ IC3SAIntersectsBad
  \/ GetModelIC3Formula
  \/ GeneralizePredecessor
  \/ ConstructPartition
  \/ SAReturn

\* the cube-building functions of IC3SA, each exercised alone
SpecIC3SACube == SACubeInit /\ [][SACubeNext]_vars

(***************************************************************************)
(* Reference semantics of a transition system, by image computation.       *)
(***************************************************************************)
Image(ts, X) == UNION {Succ(ts, s) : s \in X}

\* breadth-first search from init: the number of transitions of a shortest
\* trace to a state violating the property, or -1 if no reachable state does
RECURSIVE Search(_, _, _, _)
Search(ts, frontier, seen, n) ==
  IF \E s \in frontier : ~PropP(ts, s)
    THEN n
    ELSE LET new == Image(ts, frontier) \ seen
         IN IF new = {} THEN -1 ELSE Search(ts, new, seen \cup new, n + 1)

ShortestCex(ts) == Search(ts, InitStates(ts), InitStates(ts), 0)

IsSafe(ts) == ShortestCex(ts) = -1

\* a completed check_until call
Returned == pc = "idle" /\ result # "none"

\* the queries of the running (or last) check_until call
CallQueries ==
  {n \in 1..Len(qlog) :
     qlog[n].call = (IF pc = "idle" THEN Len(hist) ELSE Len(hist) + 1)}

\* the trace w is a concrete run: starts in init, follows trans
IsRun(ts, w) ==
  /\ Len(w) >= 1
  /\ InitP(ts, w[1])
  /\ \A n \in 1..(Len(w) - 1) : TransP(ts, w[n], w[n + 1])

(***************************************************************************)
(* C1.  Whenever check_until(k) returns UNSAFE it does so at a depth i <=  *)
(* k whose base-step query contains init@0, trans@0..trans@(i-1) and       *)
(* not prop@i, and the model of that query is a concrete trace s_0..s_i:   *)
(* s_0 satisfies init, consecutive states satisfy trans, s_i violates the  *)
(* property.                                                               *)
(***************************************************************************)
C1_UnsafeHasTrace ==
  (Returned /\ result = "FALSE") =>
    /\ i <= k
    /\ Len(witness) = i + 1
    /\ IsRun(sys, witness)
    /\ ~PropP(sys, witness[i + 1])
    /\ LET q == qlog[Len(qlog)]
       IN /\ q.kind = "base" /\ q.depth = i /\ q.ans = "sat"
          /\ {InitAt0, BadAt(i)} \cup {TransAt(j) : j \in 0..(i - 1)}
               \subseteq q.asserted
          /\ \A a \in q.asserted : a.kind \in {"trans", "prop"} => a.i < i

C1_Witness ==
  Returned /\ result = "FALSE" /\ sys = S6 /\ i = 4 /\ Len(witness) = 5

(***************************************************************************)
(* C2.  With a solver that answers every query sat or unsat correctly,     *)
(* whenever check_until returns SAFE no state reachable from init          *)
(* violates the property.                                                  *)
(***************************************************************************)
C2_SafeIsSound ==
  (Returned /\ result = "TRUE" /\ unknowns = 0) => IsSafe(sys)

\* SAFE obtained at depth 1 on Lasso, where the simple-path constraint is
\* what makes the inductive query unsatisfiable
C2_Witness ==
  /\ Returned /\ result = "TRUE" /\ unknowns = 0
  /\ sys = Lasso /\ i = 1 /\ Len(simple_path_) >= 1

(***************************************************************************)
(* C3.  If the solver answers UNKNOWN to a base-step or inductive-step     *)
(* query of check_until(k), check_until(k) returns UNKNOWN (the answer is  *)
(* treated neither as unsat nor as sat).                                   *)
(***************************************************************************)
C3_UnknownPropagates ==
  (Returned /\ \E n \in CallQueries : qlog[n].ans = "unknown")
    => result = "UNKNOWN"

(***************************************************************************)
(* C4.  With definite solver answers, check_until(k) returns UNKNOWN       *)
(* exactly when at every depth 0..k the base step found no counterexample  *)
(* and the inductive step was satisfiable; no query of the call is at a    *)
(* depth greater than k.                                                   *)
(***************************************************************************)
C4_UnknownIffNoVerdict ==
  (Returned /\ unknowns = 0) =>
    /\ (result = "UNKNOWN") <=>
         (\A d \in 0..k :
            /\ \E n \in 1..Len(qlog) :
                 qlog[n].kind = "base" /\ qlog[n].depth = d
                   /\ qlog[n].ans = "unsat"
            /\ \E n \in 1..Len(qlog) :
                 qlog[n].kind = "ind" /\ qlog[n].depth = d
                   /\ qlog[n].ans = "sat")
    /\ \A n \in CallQueries : qlog[n].depth <= k

C4_Witness ==
  Returned /\ unknowns = 0 /\ result = "UNKNOWN" /\ sys = S6 /\ k = 3

(***************************************************************************)
(* C5.  For a system whose shortest property-violating trace has d         *)
(* transitions, check_until(k) on a fresh prover returns UNSAFE from the   *)
(* base step at depth d when k >= d and UNKNOWN when k < d; d = 3 for S2,  *)
(* d = 1 for S3, d = 4 for S6.                                             *)
(***************************************************************************)
FreshCallReturned == Returned /\ Len(hist) = 1 /\ unknowns = 0

C5_ShortestCexFound ==
  (FreshCallReturned /\ ~IsSafe(sys)) =>
    LET d == ShortestCex(sys)
    IN /\ k >= d => (result = "FALSE" /\ i = d)
       /\ k < d => result = "UNKNOWN"
       /\ sys = S2 => d = 3
       /\ sys = S3 => d = 1
       /\ sys = S6 => d = 4

C5_Witness ==
  FreshCallReturned /\ sys = S2 /\ k = 4 /\ result = "FALSE" /\ i = 3

(***************************************************************************)
(* C6 (as stated).  For S5, check_until(1) on a fresh prover returns SAFE. *)
(***************************************************************************)
C6_S5SafeAtK1 ==
  (FreshCallReturned /\ sys = S5 /\ k = 1) => result = "TRUE"

(***************************************************************************)
(* C6 (amended).  For S5, check_until(1) on a fresh prover returns UNSAFE  *)
(* from the base step at depth 0: the initial state x = 0, y = 0 violates  *)
(* y != 2 * x.                                                             *)
(***************************************************************************)
C6_S5UnsafeAtDepth0 ==
  (FreshCallReturned /\ sys = S5 /\ k = 1) =>
    (result = "FALSE" /\ i = 0 /\ witness = <<(<<0, 0>>)>>)

C6_Witness == FreshCallReturned /\ sys = S5 /\ k = 1

(***************************************************************************)
(* C7.  With a correct solver and k1 <= k2, check_until(k2) after          *)
(* check_until(k1) on the same prover returns the verdict that             *)
(* check_until(k2) returns on a freshly initialised prover.                *)
(***************************************************************************)
NonDecreasing(h) == \A n \in 1..(Len(h) - 1) : h[n].k <= h[n + 1].k

C7_RepeatedCallAgrees ==
  (Returned /\ Len(hist) >= 2 /\ NonDecreasing(hist) /\ unknowns = 0
     /\ fresh[k] # "none")
    => result = fresh[k]

\* a second call that had to continue the search of the first
C7_Witness ==
  /\ Returned /\ Len(hist) = 2 /\ unknowns = 0 /\ fresh[k] # "none"
  /\ hist[1].k < hist[2].k /\ hist[1].res = "UNKNOWN"
  /\ hist[2].res = "FALSE"

(***************************************************************************)
(* C8.  Whatever verdict check_until returns, the solver's context depth   *)
(* at the return equals its depth at entry.                                *)
(***************************************************************************)
C8_PushPopBalanced == Returned => Depth(stack) = entry_depth

(***************************************************************************)
(* C9.  When the inner prover reports UNSAFE and the BMC formula of the    *)
(* abstract system at the witness length is satisfiable under all          *)
(* value-equality labels, CegarValues::check_until returns UNSAFE.         *)
(***************************************************************************)
C9_RealCexReturnsUnsafe ==
  (cpc = "idle" /\ inner_res = "FALSE" /\ refine_r = "sat")
    => cres = "FALSE"

(***************************************************************************)
(* C10.  After the value abstraction of a relational system, every run of  *)
(* the concrete system, extended by giving each frozen variable the value  *)
(* it abstracts at every step, is a run of the abstract system, and every  *)
(* state of it that violates the property satisfies the abstract bad.      *)
(***************************************************************************)
\* the concrete state s extended with the frozen variables at their values
Extended(s) == [a \in DOMAIN to_vals_ |-> to_vals_[a][3]] @@ s

C10_AbstractionPreservesRuns ==
  initialized_ =>
    LET w == [n \in 1..Len(ctrace) |-> Extended(ctrace[n])]
    IN /\ \A n \in 1..Len(w) : w[n] \in StatesOfTS(prover_ts_)
       /\ Len(w) >= 1 => HoldsTerm(prover_ts_.init, w[1])
       /\ \A n \in 1..(Len(w) - 1) : HoldsTrans(prover_ts_, w[n], w[n + 1])
       /\ \A n \in 1..Len(w) :
            ~HoldsTerm(PropTerm(csys), ctrace[n]) => HoldsTerm(bad_, w[n])

\* the counter has run into its bad state c = 3 after three transitions
C10_Witness ==
  /\ initialized_ /\ csys = TCounter /\ Len(ctrace) = 4
  /\ ~HoldsTerm(PropTerm(csys), ctrace[4])
  /\ DOMAIN to_vals_ # {}

(***************************************************************************)
(* C11.  A refinement step that finds the abstract counterexample spurious *)
(* (the BMC query is unsat under the labels) adds a lemma to the abstract  *)
(* transition system, which then differs from the system cegar_abstract    *)
(* built, and the loop of check_until goes on with the inner prover.       *)
(***************************************************************************)
C11_RefinementAddsLemma ==
  (inner_res = "FALSE" /\ refine_r = "unsat") =>
    /\ prover_ts_ # Abstracted(csys).ts
    /\ cegval_ts_ # Abstracted(csys).ts
    /\ cres # "exception"

(***************************************************************************)
(* C12.  initialize() is idempotent.  Every KInduction::initialize() call  *)
(* ends in reached_k_ = -1, no assertions, simple_path_ = true, whatever   *)
(* the state it starts from, so a second call changes nothing.  Once a     *)
(* CegarValues driver is initialised, no later step (a further             *)
(* initialize(), or the one at the start of check_until) changes the       *)
(* abstract system, to_vals_, cegval_labels_ or bad_.                      *)
(***************************************************************************)
C12_InitializeIdempotent ==
  [][/\ inits' # inits => InitProver'
     /\ initialized_ =>
          /\ initialized_'
          /\ UNCHANGED <<prover_ts_, bad_, to_vals_, cegval_ts_, cegval_bad_,
                         cegval_labels_>>]_vars

\* a further initialize() call on a driver that holds an abstraction
C12_Witness ==
  /\ initialized_ /\ cinits = 2 /\ cpc = "idle" /\ cres = "none"
  /\ DOMAIN to_vals_ # {} /\ DOMAIN cegval_labels_ = DOMAIN to_vals_

(***************************************************************************)
(* C13.  IC3SA::check_ts raises an error if and only if some state         *)
(* variable or some input variable of the system has a sort kind other     *)
(* than BOOL or BV; otherwise it returns normally.                         *)
(***************************************************************************)
C13_CheckTsUnsupportedIff ==
  check_ts_res # "none" =>
    /\ check_ts_res = "exception" <=>
         \/ \E n \in 1..Len(ts_statevars) :
              ts_statevars[n] \notin {"BOOL", "BV"}
         \/ \E n \in 1..Len(ts_inputvars) :
              ts_inputvars[n] \notin {"BOOL", "BV"}
    /\ check_ts_res \in {"exception", "ok"}

\* check_ts has run on a system whose only unsupported variable is an input
C13_Witness ==
  /\ check_ts_res = "exception"
  /\ ts_statevars = <<"BOOL", "BV">>
  /\ ts_inputvars = <<"BV", "ARRAY">>

(***************************************************************************)
(* C14.  For a functional transition system every call that reaches        *)
(* cegar_abstract ends in an error, and no frozen abstraction variable     *)
(* exists at any time: prover_ts_ has the state variables of the concrete  *)
(* system only, none of them frozen, and to_vals_ is empty.                *)
(***************************************************************************)
C14_FunctionalNotImplemented ==
  csys = TFun =>
    /\ cinits >= 1 => (cres = "exception" /\ cpc = "idle")
    /\ to_vals_ = <<>>
    /\ cegval_labels_ = <<>>
    /\ prover_ts_.frozen = {}
    /\ DOMAIN prover_ts_.sorts \subseteq DOMAIN StateVarSorts(csys)
    /\ ~initialized_

\* check_until has been called on the functional system
C14_Witness ==
  /\ csys = TFun /\ cinits >= 1 /\ cres = "exception"
  /\ prover_ts_ = ConcTS(TFun) /\ to_vals_ = <<>>

(***************************************************************************)
(* C17.  The inductive-step query at depth d is issued only after the      *)
(* base-step queries at every depth 0..d have been answered without a      *)
(* counterexample, and a query at depth d + 1 is issued only after the     *)
(* inductive-step query at depth d has been answered.                      *)
(***************************************************************************)
C17_BaseBeforeInductive ==
  \A n \in 1..Len(qlog) :
    /\ qlog[n].kind = "ind" =>
         \A d \in 0..qlog[n].depth :
           \E m \in 1..(n - 1) :
             /\ qlog[m].kind = "base" /\ qlog[m].depth = d
             /\ qlog[m].ans # "sat"
    /\ qlog[n].depth >= 1 =>
         \E m \in 1..(n - 1) :
           qlog[m].kind = "ind" /\ qlog[m].depth = qlog[n].depth - 1

\* the queries of S6 up to the base step at depth 4
C17_Witness ==
  /\ sys = S6 /\ Len(qlog) = 9
  /\ qlog[9].kind = "base" /\ qlog[9].depth = 4
  /\ qlog[8].kind = "ind" /\ qlog[8].depth = 3

(***************************************************************************)
(* C18.  Once the base step at depth d has passed, trans@d and prop@d are  *)
(* among the assertions of every later query of the prover, while init@0   *)
(* is present in base-step queries only and a negated property not prop@j  *)
(* only in the query it was pushed for (the base-step query at depth j,    *)
(* the inductive-step query at depth j - 1).                               *)
(***************************************************************************)
C18_BaseFactsPersist ==
  \A n \in 1..Len(qlog) :
    /\ \A m \in 1..(n - 1) :
         (qlog[m].kind = "base" /\ qlog[m].ans # "sat") =>
           {TransAt(qlog[m].depth), PropAt(qlog[m].depth)}
             \subseteq qlog[n].asserted
    /\ InitAt0 \in qlog[n].asserted => qlog[n].kind = "base"
    /\ \A j \in 0..(MaxK + 1) :
         BadAt(j) \in qlog[n].asserted =>
           \/ qlog[n].kind = "base" /\ j = qlog[n].depth
           \/ qlog[n].kind = "ind" /\ j = qlog[n].depth + 1

(***************************************************************************)
(* C19.  At a depth i <= reached_k_, base_step(i) and inductive_step(i)    *)
(* issue no query and leave the assertions, simple_path_ and reached_k_    *)
(* unchanged; between two initialize() calls a depth's base query, and its *)
(* inductive query, is issued twice only if that depth gave a verdict.     *)
(***************************************************************************)
VerdictAt(q, d) ==
  \E n \in 1..Len(q) :
    /\ q[n].depth = d
    /\ \/ q[n].kind = "base" /\ q[n].ans = "sat"
       \/ q[n].kind = "ind" /\ q[n].ans = "unsat"

C19_NoDepthRedone ==
  [][/\ (pc \in {"base", "ind"} /\ i <= reached_k_) =>
          UNCHANGED <<qlog, stack, simple_path_, reached_k_>>
     /\ \A n \in 1..Len(qlog'), m \in 1..Len(qlog') :
          (n < m /\ qlog'[n].kind = qlog'[m].kind
             /\ qlog'[n].depth = qlog'[m].depth)
            => VerdictAt(qlog', qlog'[n].depth)]_vars

\* a second call went through the depths 0 and 1 of the first without a
\* query and then asked the queries of depth 2
C19_Witness ==
  /\ Len(hist) = 1 /\ hist[1].k = 1 /\ hist[1].res = "UNKNOWN"
  /\ pc = "ind" /\ i = 2 /\ Len(qlog) = 5
  /\ qlog[5].call = 2 /\ qlog[5].depth = 2

(***************************************************************************)
(* C20 (as stated).  reached_k_ is -1 after initialize, is raised by       *)
(* exactly one by every inductive step that is not unsatisfiable and       *)
(* changed by nothing else, and equals k whenever check_until(k) returns   *)
(* UNKNOWN.                                                                *)
(***************************************************************************)
SatisfiableSteps(q) ==
  Cardinality({n \in 1..Len(q) : q[n].kind = "ind" /\ q[n].ans # "unsat"})

ReachedAtEntry ==
  Cardinality({n \in 1..Len(qlog) :
                 /\ qlog[n].kind = "ind" /\ qlog[n].ans # "unsat"
                 /\ qlog[n].call < Len(hist)}) - 1

IC3Sane ==
  /\ ires = "TRUE" => IsSafe(isys)
  /\ ires = "FALSE" => ~IsSafe(isys)
  /\ \A n \in 0..(Len(frames_) - 2) :
       /\ FrameStates(isys, frames_, n) \subseteq
            FrameStates(isys, frames_, n + 1)
       /\ \A s \in FrameStates(isys, frames_, n) :
            Succ(isys, s) \subseteq FrameStates(isys, frames_, n + 1)

\* C15: every call of get_next_proof_goal removes from proof_goals_ and
\* returns a goal whose frame index is minimal among the goals in
\* proof_goals_ at the call.
C15_SmallestFrameFirst ==
  [][(ipc = "block_all" /\ ipc' = "block") =>
       /\ \A n \in 1..Len(proof_goals_) : cur_goal'.idx <= proof_goals_[n].idx
       /\ \E n \in 1..Len(proof_goals_) :
            /\ proof_goals_[n] = cur_goal'
            /\ proof_goals_' = RemoveAt(proof_goals_, n)]_vars

\* get_next_proof_goal has returned a goal of a lower frame than an older
\* goal that is still outstanding
C15_Witness ==
  /\ ipc = "block"
  /\ proof_goals_ # <<>>
  /\ cur_goal.idx < proof_goals_[1].idx

\* every unit of a frame j >= 1 holds after one transition from F_(j-1)
FramesEntailed ==
  \A j \in 1..(Len(frames_) - 1) : \A u \in frames_[j + 1] :
    \A s \in FrameStates(isys, frames_, j - 1) :
      \A t \in Succ(isys, s) : Blocks(u, t)

\* every unit stays at its frame or is found at a higher one, and a step
\* of propagate(prop_i) changes frames prop_i and prop_i + 1 only
UnitsMoveUp ==
  /\ Len(frames_') >= Len(frames_)
  /\ \A j \in 1..Len(frames_) : \A u \in frames_[j] :
       \E h \in j..Len(frames_') : u \in frames_'[h]
  /\ (ipc = "propagate" /\ frames_' # frames_) =>
       /\ Len(frames_') = Len(frames_)
       /\ \A j \in 1..Len(frames_) :
            IF j = prop_i + 1
              THEN /\ frames_'[j] \subseteq frames_[j]
                   /\ frames_[j] \ frames_'[j] \subseteq frames_'[j + 1]
              ELSE IF j = prop_i + 2
                     THEN frames_'[j] =
                            frames_[j] \cup (frames_[j - 1] \ frames_'[j - 1])
                     ELSE frames_'[j] = frames_[j]

\* C16: every unit in frames_[i], i >= 1, is entailed by F_(i-1) and the
\* transition relation at all times, units only move to a higher frame
\* (propagate(i) from frames_[i] to frames_[i+1]), and find_highest_frame(i, u)
\* returns an index >= i.
C16_FrameMonotonicity ==
  [][/\ FramesEntailed'
     /\ UnitsMoveUp
     /\ \A r \in fhf' : r.to >= r.from]_vars

\* find_highest_frame has returned a frame above the one it was asked for,
\* and propagate has since moved every unit of frame 1 to frame 2
C16_Witness ==
  /\ \E r \in fhf : r.to > r.from
  /\ ires = "TRUE"
  /\ Len(frames_) >= 3
  /\ frames_[2] = {}
  /\ Cardinality(frames_[3]) >= 2

\* the state sequences of n states over S, and those without a repeated state
SeqsOver(S, n) == [1..n -> S]
PairwiseDistinct(p) ==
  \A a \in DOMAIN p : \A b \in DOMAIN p : a # b => p[a] # p[b]

\* the states the sequences are drawn from: every state, but for S5 four
\* states that agree on both, one or no variable, and for S6 four of its
\* eight states
SampleStates(ts) ==
  CASE ts = S5 -> {<<0, 0>>, <<0, 1>>, <<1, 0>>, <<1, 2>>}
    [] ts = S6 -> {<<0>>, <<1>>, <<4>>, <<7>>}
    [] OTHER -> StatesOf(ts)

\* C21: the simple-path conjuncts asserted in the inductive-step query at
\* depth d are exactly those of the pairs 0 <= j < a <= d, and a sequence
\* of states at times 0..d satisfies them iff its states are pairwise
\* distinct.
C21_SimplePathContent ==
  \A n \in 1..Len(qlog) :
    qlog[n].kind = "ind" =>
      LET d == qlog[n].depth
          C == {a \in qlog[n].asserted : a.kind = "sp"}
      IN /\ C = {Asrt("sp", pr[1], pr[2]) :
                   pr \in {q \in (0..d) \X (0..d) : q[2] < q[1]}}
         /\ n = Len(qlog) =>
              /\ \A s \in SampleStates(sys) : \A t \in SampleStates(sys) :
                   Holds(sys, Asrt("sp", 1, 0), <<s, t>>) <=> s # t
              /\ d <= MaxSeqDepth =>
                   \A q \in SeqsOver(SampleStates(sys), d + 1) :
                     (\A a \in C : Holds(sys, a, q)) <=> PairwiseDistinct(q)

\* an inductive-step query at a depth with three pairs, on a system with
\* two state variables
C21_Witness ==
  /\ sys = Cnt2
  /\ qlog # <<>>
  /\ qlog[Len(qlog)].kind = "ind"
  /\ qlog[Len(qlog)].depth = 2

\* the value literals occurring in t that are not arrays
ValuesIn(t) == {u \in Subterms(t) : IsValue(u) /\ u[2] # "array"}

\* t with every variable of the map m replaced by the term m gives it
RECURSIVE Substituted(_, _)
Substituted(t, m) ==
  IF t[1] = "var" /\ t[2] \in DOMAIN m
    THEN m[t[2]]
    ELSE IF t[1] = "op"
           THEN Op(t[2], [n \in 1..Len(t[3]) |-> Substituted(t[3][n], m)])
           ELSE t

\* the abstract transition system built by cegar_abstract
VASystem ==
  [init |-> va_ts.init, trans |-> va_ts.trans,
   sorts |-> va_st.sorts @@ [v \in {"x"} |-> "bv"],
   inputs |-> <<>>, frozen |-> va_ts.frozen]

VAInputValues ==
  ValuesIn(va_in.init) \cup ValuesIn(va_in.trans) \cup ValuesIn(va_in.prop)

\* C22: after cegar_abstract on a relational system, every non-array value
\* of init, trans or the property has a fresh state variable of its sort
\* that to_vals_ maps to it; to_vals_ maps each variable to the value it
\* stands for in the abstract terms; and every such variable is frozen, so
\* no transition of the abstract system changes it.
C22_ValuesFrozen ==
  va_pc = "done" =>
    /\ \A v \in VAInputValues :
         \E a \in DOMAIN va_to_vals :
           /\ va_to_vals[a] = v
           /\ a # "x"
           /\ a \in DOMAIN va_st.sorts /\ va_st.sorts[a] = v[2]
    /\ \A a \in DOMAIN va_to_vals : va_to_vals[a] \in VAInputValues
    /\ Substituted(va_ts.init, va_to_vals) = va_in.init
    /\ Substituted(va_ts.trans, va_to_vals) = va_in.trans
    /\ Substituted(va_bad, va_to_vals) = Not(va_in.prop)
    /\ \A s \in StatesOfTS(VASystem) :
         (\A v \in DOMAIN s : s[v] = 0) =>
           \A t \in StatesOfTS(VASystem) :
             HoldsTrans(VASystem, s, t) =>
               \A a \in DOMAIN va_to_vals : t[a] = s[a]

\* an abstraction with two frozen variables, one of them for a value
\* that occurs only below a multiplication
C22_Witness ==
  /\ va_pc = "done"
  /\ Cardinality(DOMAIN va_to_vals) = 2
  /\ va_in.trans = Equal(NextVar("x"), BVMul(BV(1), Var("x")))
  /\ BV(1) \notin ValuesIn(va_in.init) \cup ValuesIn(va_in.prop)
  /\ \E s \in StatesOfTS(VASystem) : \E t \in StatesOfTS(VASystem) :
       HoldsTrans(VASystem, s, t)

\* the operators the claim lists
NonLinearising ==
  {"Mult", "Div", "Mod", "Abs", "Pow", "IntDiv", "BVMul", "BVUdiv", "BVSdiv",
   "BVUrem", "BVSrem", "BVSmod"}

\* C23: the walker maps every application of Mult, Div, Mod, Abs, Pow,
\* IntDiv, BVMul, BVUdiv, BVSdiv, BVUrem, BVSrem or BVSmod to itself, and
\* every application of another operator to the application of that
\* operator to the images of its children; so no frozen variable stands
\* below one of the listed operators in the abstract init, trans or bad.
C23_NonLinearKept ==
  /\ \A t \in DOMAIN va_st.cache :
       t[1] = "op" =>
         IF t[2] \in NonLinearising
           THEN va_st.cache[t] = t
           ELSE /\ \A n \in 1..Len(t[3]) : t[3][n] \in DOMAIN va_st.cache
                /\ va_st.cache[t] =
                     Op(t[2], [n \in 1..Len(t[3]) |-> va_st.cache[t[3][n]]])
  /\ \A u \in Subterms(va_ts.init) \cup Subterms(va_ts.trans)
              \cup Subterms(va_bad) :
       (u[1] = "op" /\ u[2] \in NonLinearising) =>
         \A w \in Subterms(u) : ~(w[1] = "var" /\ w[2] \in DOMAIN va_st.vals)

\* the value 1 is kept below the multiplication and replaced in the sum
\* around it, and kept as a divisor in the property
C23_Witness ==
  /\ va_pc = "done"
  /\ va_in.trans = Equal(NextVar("x"), BVAdd(BVMul(BV(1), Var("x")), BV(1)))
  /\ \E a \in DOMAIN va_to_vals :
       va_ts.trans =
         Equal(NextVar("x"), BVAdd(BVMul(BV(1), Var("x")), Var(a)))
  /\ va_bad = Not(Not(Equal(Var("x"), BVUdiv(Var("x"), BV(1)))))

\* C24: in one cegar_abstract call each value is given one frozen variable,
\* the same at every occurrence, two values never share a variable, and no
\* name is handed to make_statevar twice.
C24_AbstractionInjective ==
  /\ \A m \in 1..Len(va_st.made) : \A n \in 1..Len(va_st.made) :
       m # n => va_st.made[m] # va_st.made[n]
  /\ Len(va_st.made) = Cardinality(DOMAIN va_st.vals)
  /\ \A a \in DOMAIN va_st.vals : \A b \in DOMAIN va_st.vals :
       va_st.vals[a] = va_st.vals[b] => a = b
  /\ \A v \in DOMAIN va_st.cache :
       (IsValue(v) /\ v[2] # "array") =>
         /\ va_st.cache[v][1] = "var"
         /\ va_st.cache[v][2] \in DOMAIN va_st.vals
         /\ va_st.vals[va_st.cache[v][2]] = v
  /\ \A n \in 1..Len(va_seen) : ValuesIn(va_in[va_seen[n]]) \subseteq
                                   DOMAIN va_st.cache
  /\ va_pc = "done" =>
       /\ va_to_vals = va_st.vals
       /\ Cardinality(DOMAIN va_to_vals) = Cardinality(VAInputValues)

\* the value 1 occurs in init, in trans and twice in the property, and 0
\* in the property too: two variables were made
C24_Witness ==
  /\ va_pc = "done"
  /\ va_in.init = Equal(Var("x"), BV(1))
  /\ va_in.trans = Equal(NextVar("x"), BVAdd(Var("x"), BV(1)))
  /\ va_in.prop = Not(Equal(Var("x"), BVAdd(BVMul(BV(1), Var("x")), BV(0))))
  /\ Len(va_st.made) = 2

(***************************************************************************)
(* Claims about the cubes of IC3SA (Part VI).                              *)
(***************************************************************************)
\* the ways a call ends: it returns, the process ends in a read beyond a
\* class, or an assertion fails
SAEnded == {"done", "crashed", "assert_failed"}

\* last frame /\ bad is satisfiable
SABadIntersects ==
  \E m \in SAFrameStates(sa_frames, sa_reached_k + 1) :
    ValueOf(sa_bad, m) = 1

\* the step that ends a call of intersects_bad leaves the goals as the
\* claim says: one goal more, at frame reached_k_ + 1 and with no
\* successor, if it returns true; none if it returns false
SAGoalsAsReturned ==
  /\ sa_ret' = "true" =>
       /\ Len(sa_goals') = Len(sa_goals) + 1
       /\ SubSeq(sa_goals', 1, Len(sa_goals)) = sa_goals
       /\ sa_goals'[Len(sa_goals')].idx = sa_reached_k + 1
       /\ sa_goals'[Len(sa_goals')].next = <<>>
  /\ sa_ret' = "false" => sa_goals' = sa_goals

\* C25: a call of intersects_bad ends returning true exactly when the
\* last frame (index reached_k_ + 1) conjoined with bad is satisfiable;
\* with true exactly one proof goal was added, at frame reached_k_ + 1 and
\* with no successor, and with false the proof goals are unchanged.
C25_IntersectsBad ==
  [][(sa_fn = "intersects_bad" /\ sa_pc \notin SAEnded
        /\ sa_pc' \in SAEnded) =>
       /\ SAGoalsAsReturned
       /\ (sa_ret' = "true") <=> SABadIntersects
       /\ sa_ret' \in {"true", "false"}]_vars

\* what holds of intersects_bad in the runs in which it returns
IntersectsBadReturned ==
  [][(sa_fn = "intersects_bad" /\ sa_pc \notin SAEnded /\ sa_pc' = "done") =>
       /\ SAGoalsAsReturned
       /\ (sa_ret' = "true") <=> SABadIntersects
       /\ sa_ret' \in {"true", "false"}]_vars

\* a call of intersects_bad returned true and added its goal
IntersectsBadReturnedTrue ==
  /\ sa_fn = "intersects_bad"
  /\ sa_pc = "done"
  /\ sa_ret = "true"
  /\ Len(sa_goals) = 2

\* construct_partition has run over every class of the call
SAPartitioned == sa_pc \in {"built", "done", "assert_failed"}

\* the literals of the cube, as a set
CubeLits == {sa_cube[n] : n \in 1..Len(sa_cube)}

\* the classes of sort srt that construct_partition went through
ClassesDone(srt) ==
  {n \in 1..Len(sa_classes) : sa_classes[n].cls.sort = srt}

\* C26: for every sort with n >= 2 classes the cube built by
\* construct_partition holds a disequality between the representatives of
\* every two classes of that sort, n * (n - 1) / 2 Distinct literals.
C26_RepresentativesDistinct ==
  SAPartitioned =>
    \A srt \in {"bv", "bool"} :
      LET n == Cardinality(ClassesDone(srt))
          ds == {l \in CubeLits :
                   /\ OpOfTerm(l) = "Distinct"
                   /\ SortOfTerm(l[3][1]) = srt}
      IN n >= 2 =>
           /\ \A a \in ClassesDone(srt) : \A c \in ClassesDone(srt) :
                a < c =>
                  \/ Distinct(sa_classes[a].repr, sa_classes[c].repr) \in ds
                  \/ Distinct(sa_classes[c].repr, sa_classes[a].repr) \in ds
           /\ 2 * Cardinality(ds) = n * (n - 1)

\* C27: the representative of a class is a symbolic constant if the class
\* has one, else a non-value term if the class has one, else a value,
\* whatever the order in which the class is iterated.
C27_RepresentativePreference ==
  \A n \in 1..Len(sa_classes) :
    LET c == sa_classes[n]
        ts == c.cls.terms
    IN (n < Len(sa_classes) \/ sa_pc # "crashed") =>
         IF \E t \in ts : t[1] = "var"
           THEN c.repr[1] = "var"
           ELSE IF \E t \in ts : ~IsValue(t)
                  THEN ~IsValue(c.repr)
                  ELSE IsValue(c.repr)

\* the members of a class that the equalities eqs connect to member t
RECURSIVE Connected(_, _)
Connected(S, eqs) ==
  LET T == S \cup {u[3][1] : u \in {e \in eqs : e[3][2] \in S}}
                \cup {u[3][2] : u \in {e \in eqs : e[3][1] \in S}}
  IN IF T = S THEN S ELSE Connected(T, eqs)

\* C28: every equality appended for a class relates two members of the
\* class, the equalities of the class entail the equality of every two
\* members, and no more than the n members of the class are read.
C28_EqualitiesWithinClass ==
  \A n \in 1..Len(sa_classes) :
    LET c == sa_classes[n]
        ts == c.cls.terms
        eqs == {c.eqs[ix] : ix \in 1..Len(c.eqs)}
    IN /\ c.reads <= Cardinality(ts)
       /\ \A e \in eqs : e[3][1] \in ts /\ e[3][2] \in ts
       /\ (n < Len(sa_classes) \/ sa_pc # "crashed") =>
            \A t \in ts : ts \subseteq Connected({t}, eqs)

\* C29: the cubes of get_model_ic3formula and generalize_predecessor pass
\* ic3formula_check_valid, for every model and every predicate set of
\* boolean symbols and equality atoms over current-state variables: the
\* assertion after the construction of the cube never fails.
C29_CubesValid ==
  (sa_fn \in {"get_model_ic3formula", "generalize_predecessor"}
     /\ SAPartitioned) =>
    /\ CheckValid(sa_cube)
    /\ sa_pc # "assert_failed"

\* C30: the cube of generalize_predecessor(i, c) has one literal for every
\* predicate of predset_, p or not p as the model has it, and besides
\* these only equalities between terms of the term abstraction whose
\* symbols are state variables of the cone of influence of c.term.
C30_CubeInCone ==
  (sa_fn = "generalize_predecessor" /\ SAPartitioned) =>
    LET np == Cardinality(sa_predset)
        inCone(t) ==
          /\ t \in TermAbstraction(sa_bad)[SortOfTerm(t)]
          /\ FreeSymbols(t) \subseteq ConeOfInfluence(sa_seed)
    IN /\ {sa_cube[n] : n \in 1..np} =
            {PredLit(q, sa_model) : q \in sa_predset}
       /\ \A n \in (np + 1)..Len(sa_cube) :
            OpOfTerm(sa_cube[n]) = "Equal" =>
              inCone(sa_cube[n][3][1]) /\ inCone(sa_cube[n][3][2])

====
